---- MODULE Spec2Model ----
(***************************************************************************)
(* Model of the coordinate abstraction (src/src/database/models.py) and    *)
(* of the data mapping engine (src/src/core/data_mapping_engine.py) of     *)
(* ExcelFilterPro.                                                         *)
(*                                                                         *)
(* Text is a sequence of one-character strings.  A cell value is a record  *)
(* [t, s, n]: t = "null" (NaN/None), "str" (the text s) or "num" (the      *)
(* integer n).  A table (DataFrame with a RangeIndex) is [ncols, rows],    *)
(* rows being a sequence of rows of ncols cells.  A Series is [idx, val]:  *)
(* the index labels and the values, position by position.                  *)
(***************************************************************************)
EXTENDS Integers, Sequences, FiniteSets, TLC

VARIABLES pc, source_data, target_data, mapping, result, errors,
          mappings, current_target_data,
          ins_values, ins_positions,
          coord_str, coord, col_index, col_letters,
          eval_column, eval_value, eval_operator, eval_mask,
          columns, unique_columns,
          read_outcomes, sheet_df,
          max_cols, column_names,
          file_paths, data_frames, loaded_files,
          frames, dicts, handles

\* The state of the loaders and of the object store
processor_vars == <<columns, unique_columns, read_outcomes, sheet_df,
                    max_cols, column_names, file_paths, data_frames,
                    loaded_files, frames, dicts, handles>>

vars == <<pc, source_data, target_data, mapping, result, errors,
          mappings, current_target_data, ins_values, ins_positions,
          coord_str, coord, col_index, col_letters,
          eval_column, eval_value, eval_operator, eval_mask,
          columns, unique_columns, read_outcomes, sheet_df,
          max_cols, column_names, file_paths, data_frames,
          loaded_files, frames, dicts, handles>>

----------------------------------------------------------------------------
(* Characters and text *)

Letters == <<"A","B","C","D","E","F","G","H","I","J","K","L","M",
             "N","O","P","Q","R","S","T","U","V","W","X","Y","Z">>

LowerLetters == <<"a","b","c","d","e","f","g","h","i","j","k","l","m",
                  "n","o","p","q","r","s","t","u","v","w","x","y","z">>

Digits == <<"0","1","2","3","4","5","6","7","8","9">>

InTuple(ch, tup) == \E i \in 1..Len(tup) : tup[i] = ch

PosIn(ch, tup) == CHOOSE i \in 1..Len(tup) : tup[i] = ch

IsUpperCh(ch) == InTuple(ch, Letters)
IsLowerCh(ch) == InTuple(ch, LowerLetters)
IsAlphaCh(ch) == IsUpperCh(ch) \/ IsLowerCh(ch)
IsDigitCh(ch) == InTuple(ch, Digits)
IsSpaceCh(ch) == ch = " "

DigitVal(ch) == PosIn(ch, Digits) - 1

\* Python ord() on the characters the model uses (ASCII).
Ord(ch) ==
    IF IsUpperCh(ch) THEN 64 + PosIn(ch, Letters)
    ELSE IF IsLowerCh(ch) THEN 96 + PosIn(ch, LowerLetters)
    ELSE IF IsDigitCh(ch) THEN 48 + DigitVal(ch)
    ELSE IF ch = ":" THEN 58
    ELSE 32

\* Python chr() on the codes of the upper-case letters.
Chr(code) == Letters[code - 64]

\* str.isalpha(): non-empty and every character a letter.
IsAlpha(s) == Len(s) > 0 /\ \A i \in 1..Len(s) : IsAlphaCh(s[i])

\* str.isdigit(): non-empty and every character a digit.
IsDigit(s) == Len(s) > 0 /\ \A i \in 1..Len(s) : IsDigitCh(s[i])

UpperCh(ch) == IF IsLowerCh(ch) THEN Letters[PosIn(ch, LowerLetters)] ELSE ch

\* str.upper()
Upper(s) == [i \in 1..Len(s) |-> UpperCh(s[i])]

RECURSIVE LStrip(_)
LStrip(s) == IF Len(s) > 0 /\ IsSpaceCh(Head(s)) THEN LStrip(Tail(s)) ELSE s

RECURSIVE RStrip(_)
RStrip(s) ==
    IF Len(s) > 0 /\ IsSpaceCh(s[Len(s)])
    THEN RStrip(SubSeq(s, 1, Len(s) - 1))
    ELSE s

\* str.strip()
Strip(s) == RStrip(LStrip(s))

\* The decimal value of a string of digits.
RECURSIVE DigitsToInt(_)
DigitsToInt(s) ==
    IF Len(s) = 0 THEN 0
    ELSE DigitsToInt(SubSeq(s, 1, Len(s) - 1)) * 10 + DigitVal(s[Len(s)])

\* str(n) for an integer n >= 0.
RECURSIVE IntToStr(_)
IntToStr(n) ==
    IF n < 10 THEN <<Digits[n + 1]>>
    ELSE IntToStr(n \div 10) \o <<Digits[(n % 10) + 1]>>

StartsWith(s, p) == Len(p) <= Len(s) /\ SubSeq(s, 1, Len(p)) = p

EndsWith(s, p) ==
    Len(p) <= Len(s) /\ SubSeq(s, Len(s) - Len(p) + 1, Len(s)) = p

Contains(s, p) ==
    \E k \in 0..(Len(s) - Len(p)) : SubSeq(s, k + 1, k + Len(p)) = p

----------------------------------------------------------------------------
(* ExcelCoordinate *)

Coordinate(col, r, ecol, erow, kind) ==
    [column |-> col, row |-> r, end_column |-> ecol, end_row |-> erow,
     coord_type |-> kind]

NoCoordinate == Coordinate(<<>>, 0, <<>>, 0, "none")

Ok(c) == [ok |-> TRUE, c |-> c]
Fail == [ok |-> FALSE, c |-> NoCoordinate]

\* for char in column: result = result * 26 + (ord(char) - ord('A') + 1)
RECURSIVE ColumnAcc(_)
ColumnAcc(column) ==
    IF Len(column) = 0 THEN 0
    ELSE ColumnAcc(SubSeq(column, 1, Len(column) - 1)) * 26
         + (Ord(column[Len(column)]) - Ord("A") + 1)

column_to_index(column) == ColumnAcc(column) - 1

\* The loop of index_to_column on the 1-based index: while index > 0.
RECURSIVE IndexLoop(_)
IndexLoop(index) ==
    IF index > 0
    THEN IndexLoop((index - 1) \div 26) \o <<Chr(((index - 1) % 26) + Ord("A"))>>
    ELSE <<>>

\* index_to_column without the conversion to the 1-based index
index_to_column_zero_based(index) == IndexLoop(index)

\* index += 1, then the loop
index_to_column(index) == IndexLoop(index + 1)

\* ExcelCoordinate.__str__
CoordToStr(c) ==
    IF c.coord_type = "single" THEN c.column \o IntToStr(c.row)
    ELSE IF c.coord_type = "range"
         THEN c.column \o IntToStr(c.row) \o <<":">>
              \o c.end_column \o IntToStr(c.end_row)
    ELSE IF c.coord_type = "column"
         THEN (IF Len(c.column) > 0 THEN c.column ELSE <<"A">>)
    ELSE IF c.coord_type = "row"
         THEN (IF c.row > 0 THEN IntToStr(c.row) ELSE <<"1">>)
    ELSE <<>>

\* int(text): surrounding blanks are ignored, the rest must be digits.
IntParses(s) == IsDigit(Strip(s))
IntOf(s) == DigitsToInt(Strip(s))

\* The position of the first digit of s, 0 if there is none.
FirstDigit(s) ==
    IF \E i \in 1..Len(s) : IsDigitCh(s[i])
    THEN CHOOSE i \in 1..Len(s) :
            IsDigitCh(s[i]) /\ \A j \in 1..(i - 1) : ~IsDigitCh(s[j])
    ELSE 0

_parse_single(s) ==
    LET i == FirstDigit(s)
        col_part == IF i = 0 THEN <<>> ELSE SubSeq(s, 1, i - 1)
        row_part == IF i = 0 THEN <<>> ELSE SubSeq(s, i, Len(s))
    IN  IF Len(col_part) = 0 \/ Len(row_part) = 0 THEN Fail
        ELSE IF ~IntParses(row_part) THEN Fail
        ELSE IF IntOf(row_part) < 1 THEN Fail
        ELSE Ok(Coordinate(col_part, IntOf(row_part), <<>>, 0, "single"))

Colons(s) == {i \in 1..Len(s) : s[i] = ":"}

\* _parse_range taking two cells of one column for the whole column
_parse_range_cells_as_column(s) ==
    IF Cardinality(Colons(s)) # 1 THEN Fail
    ELSE
    LET k == CHOOSE i \in Colons(s) : TRUE
        start_str == Strip(SubSeq(s, 1, k - 1))
        end_str == Strip(SubSeq(s, k + 1, Len(s)))
        start_coord == _parse_single(start_str)
        end_coord == _parse_single(end_str)
    IN  IF IsAlpha(start_str) /\ IsAlpha(end_str) /\ start_str = end_str
        THEN Ok(Coordinate(start_str, 0, <<>>, 0, "column"))
        ELSE IF IsDigit(start_str) /\ IsDigit(end_str) /\ start_str = end_str
        THEN Ok(Coordinate(<<>>, DigitsToInt(start_str), <<>>, 0, "row"))
        ELSE IF ~start_coord.ok \/ ~end_coord.ok THEN Fail
        ELSE IF start_coord.c.column = end_coord.c.column
        THEN Ok(Coordinate(start_coord.c.column, 0, <<>>, 0, "column"))
        ELSE Ok(Coordinate(start_coord.c.column, start_coord.c.row,
                           end_coord.c.column, end_coord.c.row, "range"))

\* _parse_range without the test that the two row numbers are the same
_parse_range_any_rows(s) ==
    IF Cardinality(Colons(s)) # 1 THEN Fail
    ELSE
    LET k == CHOOSE i \in Colons(s) : TRUE
        start_str == Strip(SubSeq(s, 1, k - 1))
        end_str == Strip(SubSeq(s, k + 1, Len(s)))
        start_coord == _parse_single(start_str)
        end_coord == _parse_single(end_str)
    IN  IF IsAlpha(start_str) /\ IsAlpha(end_str) /\ start_str = end_str
        THEN Ok(Coordinate(start_str, 0, <<>>, 0, "column"))
        ELSE IF IsDigit(start_str) /\ IsDigit(end_str)
        THEN Ok(Coordinate(<<>>, DigitsToInt(start_str), <<>>, 0, "row"))
        ELSE IF ~start_coord.ok \/ ~end_coord.ok THEN Fail
        ELSE Ok(Coordinate(start_coord.c.column, start_coord.c.row,
                           end_coord.c.column, end_coord.c.row, "range"))

_parse_range(s) ==
    IF Cardinality(Colons(s)) # 1 THEN Fail
    ELSE
    LET k == CHOOSE i \in Colons(s) : TRUE
        start_str == Strip(SubSeq(s, 1, k - 1))
        end_str == Strip(SubSeq(s, k + 1, Len(s)))
        start_coord == _parse_single(start_str)
        end_coord == _parse_single(end_str)
    IN  IF IsAlpha(start_str) /\ IsAlpha(end_str) /\ start_str = end_str
        THEN Ok(Coordinate(start_str, 0, <<>>, 0, "column"))
        ELSE IF IsDigit(start_str) /\ IsDigit(end_str) /\ start_str = end_str
        THEN Ok(Coordinate(<<>>, DigitsToInt(start_str), <<>>, 0, "row"))
        ELSE IF ~start_coord.ok \/ ~end_coord.ok THEN Fail
        ELSE Ok(Coordinate(start_coord.c.column, start_coord.c.row,
                           end_coord.c.column, end_coord.c.row, "range"))

from_string(text) ==
    LET s == Strip(Upper(text))
    IN  IF Colons(s) # {} THEN _parse_range(s)
        ELSE IF IsAlpha(s) THEN Ok(Coordinate(s, 0, <<>>, 0, "column"))
        ELSE IF IsDigit(s) THEN Ok(Coordinate(<<>>, DigitsToInt(s), <<>>, 0, "row"))
        ELSE _parse_single(s)

----------------------------------------------------------------------------
(* Cell values, tables and Series *)

Null == [t |-> "null", s |-> <<>>, n |-> 0]
Str(s) == [t |-> "str", s |-> s, n |-> 0]
Num(n) == [t |-> "num", s |-> <<>>, n |-> n]

\* pd.isna / pd.notna on one value
isna(c) == c.t = "null"

\* str(value): str(nan) is 'nan'
PyStr(c) ==
    IF c.t = "str" THEN c.s
    ELSE IF c.t = "num" THEN IntToStr(c.n)
    ELSE <<"n", "a", "n">>

\* value == other, element by element: NaN equals nothing, a string never
\* equals a number.
PyEq(c, v) == c.t # "null" /\ v.t # "null" /\ c = v

\* float(text) and pd.to_numeric on one string: a number, nan, inf, or no
\* number at all ("bad").
FloatOf(s) ==
    LET u == Upper(Strip(s))
    IN  IF IsDigit(u) THEN [k |-> "num", n |-> DigitsToInt(u)]
        ELSE IF u = <<"N", "A", "N">> THEN [k |-> "nan", n |-> 0]
        ELSE IF u = <<"I", "N", "F">> THEN [k |-> "inf", n |-> 0]
        ELSE [k |-> "bad", n |-> 0]

\* pd.to_numeric(column, errors='coerce') on one cell
ToNumeric(c) ==
    IF c.t = "num" THEN [k |-> "num", n |-> c.n]
    ELSE IF c.t = "null" THEN [k |-> "nan", n |-> 0]
    ELSE IF FloatOf(c.s).k = "bad" THEN [k |-> "nan", n |-> 0]
    ELSE FloatOf(c.s)

NumGt(a, b) ==
    /\ a.k # "nan" /\ b.k # "nan"
    /\ \/ a.k = "inf" /\ b.k = "num"
       \/ a.k = "num" /\ b.k = "num" /\ a.n > b.n

NumGe(a, b) ==
    /\ a.k # "nan" /\ b.k # "nan"
    /\ \/ a.k = "inf"
       \/ a.k = "num" /\ b.k = "num" /\ a.n >= b.n

Table(nc, rs) == [ncols |-> nc, rows |-> rs]

Series(labels, values) == [idx |-> labels, val |-> values]

RangeIndex(n) == [i \in 1..n |-> i - 1]

\* df.iloc[:, j] for -ncols <= j < ncols (a negative j counts from the end)
ColumnOf(df, j) ==
    LET jj == IF j < 0 THEN j + df.ncols ELSE j
    IN  Series(RangeIndex(Len(df.rows)),
               [i \in 1..Len(df.rows) |-> df.rows[i][jj + 1]])

\* df.iloc[:, j] raises IndexError
ColumnOutOfBounds(df, j) == j >= df.ncols \/ j < 0 - df.ncols

\* A bound of a Python slice over n positions
SliceBound(x, n) ==
    IF x < 0 THEN (IF x + n < 0 THEN 0 ELSE x + n)
    ELSE IF x > n THEN n ELSE x

\* series.iloc[start-1:end]
RowWindow(ser, start, end) ==
    LET n == Len(ser.val)
        a == SliceBound(start - 1, n)
        b == SliceBound(end, n)
    IN  Series(SubSeq(ser.idx, a + 1, b), SubSeq(ser.val, a + 1, b))

RECURSIVE Pick(_, _)
\* The entries of s at the positions where keep is true, in order
Pick(s, keep) ==
    IF Len(s) = 0 THEN <<>>
    ELSE (IF Head(keep) THEN <<Head(s)>> ELSE <<>>) \o Pick(Tail(s), Tail(keep))

HasLabel(ser, label) == \E i \in 1..Len(ser.idx) : ser.idx[i] = label

AtLabel(ser, label) == ser.val[CHOOSE i \in 1..Len(ser.idx) : ser.idx[i] = label]

\* matched_rows[matched_rows].index.tolist()
TrueLabels(mask) == Pick(mask.idx, mask.val)

\* series[mask] raises IndexingError: the mask lacks a label of the series
Unalignable(ser, mask) ==
    \E i \in 1..Len(ser.idx) : ~HasLabel(mask, ser.idx[i])

\* series[mask]: the mask is aligned on the labels of the series
BoolIndex(ser, mask) ==
    Pick(ser.val, [i \in 1..Len(ser.idx) |-> AtLabel(mask, ser.idx[i])])

\* .dropna().tolist()
DropNa(values) == SelectSeq(values, LAMBDA c : ~isna(c))

----------------------------------------------------------------------------
(* DataMappingEngine._apply_match_operator *)

Operators == {"EQUALS", "NOT_EQUALS", "GREATER_THAN", "GREATER_EQUAL",
              "LESS_THAN", "LESS_EQUAL", "CONTAINS", "NOT_CONTAINS",
              "STARTS_WITH", "ENDS_WITH", "IS_EMPTY", "IS_NOT_EMPTY"}

\* The fallback returning an empty mask
FallbackMaskEmpty(column) == Series(<<>>, <<>>)

\* except Exception: return pd.Series([False] * len(column))
FallbackMask(column) ==
    Series(RangeIndex(Len(column.val)), [i \in 1..Len(column.val) |-> FALSE])

\* EqualsCell with the converted comparisons made even when the direct
\* comparison matched a row
EqualsCellAlwaysConverts(c, value, anyDirect) ==
    \/ PyEq(c, value)
    \/ /\ value.t = "str"
       /\ IntParses(value.s)
       /\ PyEq(c, Num(IntOf(value.s)))
    \/ /\ value.t = "str"
       /\ FloatOf(value.s).k = "num"
       /\ PyEq(c, Num(FloatOf(value.s).n))
    \/ /\ value.t = "num"
       /\ PyStr(c) = IntToStr(value.n)

\* The mask of the EQUALS branch for one cell, given whether the direct
\* comparison matched any row.
EqualsCell(c, value, anyDirect) ==
    \/ PyEq(c, value)
    \/ /\ ~anyDirect
       /\ \/ /\ value.t = "str"
             /\ IntParses(value.s)
             /\ PyEq(c, Num(IntOf(value.s)))
          \/ /\ value.t = "str"
             /\ FloatOf(value.s).k = "num"
             /\ PyEq(c, Num(FloatOf(value.s).n))
          \/ /\ value.t = "num"
             /\ PyStr(c) = IntToStr(value.n)

\* float(value) raises ValueError
FloatFails(value) ==
    value.t = "null" \/ (value.t = "str" /\ FloatOf(value.s).k = "bad")

FloatValue(value) ==
    IF value.t = "num" THEN [k |-> "num", n |-> value.n] ELSE FloatOf(value.s)

\* IsEmptyCell without column.isna()
IsEmptyCellTextOnly(c) == Strip(PyStr(c)) = <<>>

\* column.isna() | (column.astype(str).str.strip() == '')
IsEmptyCell(c) == isna(c) \/ Strip(PyStr(c)) = <<>>

_apply_match_operator(column, value, operator) ==
    LET n == Len(column.val)
        Mask(P(_)) == Series(column.idx, [i \in 1..n |-> P(column.val[i])])
        anyDirect == \E i \in 1..n : PyEq(column.val[i], value)
        sv == PyStr(value)
    IN  IF operator = "EQUALS"
        THEN Mask(LAMBDA c : EqualsCell(c, value, anyDirect))
        ELSE IF operator = "NOT_EQUALS"
        THEN Mask(LAMBDA c : ~PyEq(c, value))
        ELSE IF operator = "CONTAINS"
        THEN Mask(LAMBDA c : Contains(PyStr(c), sv))
        ELSE IF operator = "NOT_CONTAINS"
        THEN Mask(LAMBDA c : ~Contains(PyStr(c), sv))
        ELSE IF operator = "STARTS_WITH"
        THEN Mask(LAMBDA c : StartsWith(PyStr(c), sv))
        ELSE IF operator = "ENDS_WITH"
        THEN Mask(LAMBDA c : EndsWith(PyStr(c), sv))
        ELSE IF operator \in {"GREATER_THAN", "GREATER_EQUAL",
                              "LESS_THAN", "LESS_EQUAL"}
        THEN IF FloatFails(value) THEN FallbackMask(column)
             ELSE IF operator = "GREATER_THAN"
             THEN Mask(LAMBDA c : NumGt(ToNumeric(c), FloatValue(value)))
             ELSE IF operator = "GREATER_EQUAL"
             THEN Mask(LAMBDA c : NumGe(ToNumeric(c), FloatValue(value)))
             ELSE IF operator = "LESS_THAN"
             THEN Mask(LAMBDA c : NumGt(FloatValue(value), ToNumeric(c)))
             ELSE Mask(LAMBDA c : NumGe(FloatValue(value), ToNumeric(c)))
        ELSE IF operator = "IS_EMPTY"
        THEN Mask(LAMBDA c : IsEmptyCell(c))
        ELSE IF operator = "IS_NOT_EMPTY"
        THEN Mask(LAMBDA c : ~IsEmptyCell(c))
        ELSE FallbackMask(column)

----------------------------------------------------------------------------
(* DataMapping and DataMappingEngine *)

\* A row range of a rule: the attribute is missing from the object
\* ("absent", as on a DataMapping built from its declared fields), holds
\* None ("none"), or holds the pair (s, e) ("set").
NoRangeAttr == [has |-> "absent", s |-> 0, e |-> 0]
RangeNone == [has |-> "none", s |-> 0, e |-> 0]
RowRange(s, e) == [has |-> "set", s |-> s, e |-> e]

DataMapping(sf, smc, smv, svc, tf, tmc, tmv, tic, op, ow) ==
    [source_file |-> sf, source_match_coordinate |-> smc,
     source_match_value |-> smv, source_value_coordinate |-> svc,
     target_file |-> tf, target_match_coordinate |-> tmc,
     target_match_value |-> tmv, target_insert_coordinate |-> tic,
     match_operator |-> op, overwrite_existing |-> ow,
     source_match_row_range |-> NoRangeAttr,
     target_match_row_range |-> NoRangeAttr]

\* raise ValueError for a coordinate that is neither a column nor a single
\* _get_column_index accepting every kind of coordinate
ColumnIndexNeverFails(coordinate) == FALSE

\* _get_column_index raises ValueError: the kind is neither column nor single
ColumnIndexFails(coordinate) == coordinate.coord_type \notin {"column", "single"}

_get_column_index(coordinate) == column_to_index(coordinate.column)

\* The upper bound check of the engine: index >= len(df.columns)
IndexTooLarge(index, df) == index >= df.ncols

Raised(e) == [ok |-> FALSE, err |-> e, values |-> <<>>]
Returned(v) == [ok |-> TRUE, err |-> "", values |-> v]

\* The column after the optional row window
Windowed(column, range) ==
    IF range.has = "set" THEN RowWindow(column, range.s, range.e) ELSE column

_extract_source_values(m, sdata) ==
    IF m.source_file \notin DOMAIN sdata THEN Raised("ValueError")
    ELSE IF ColumnIndexFails(m.source_match_coordinate)
            \/ ColumnIndexFails(m.source_value_coordinate)
    THEN Raised("ValueError")
    ELSE
    LET df == sdata[m.source_file]
        match_col_index == _get_column_index(m.source_match_coordinate)
        value_col_index == _get_column_index(m.source_value_coordinate)
        match_column == Windowed(ColumnOf(df, match_col_index),
                                 m.source_match_row_range)
        value_column == Windowed(ColumnOf(df, value_col_index),
                                 m.source_match_row_range)
        matched_rows == _apply_match_operator(match_column,
                            m.source_match_value, m.match_operator)
    IN  IF IndexTooLarge(match_col_index, df) \/ IndexTooLarge(value_col_index, df)
        THEN Raised("ValueError")
        ELSE IF ColumnOutOfBounds(df, match_col_index)
                \/ ColumnOutOfBounds(df, value_col_index)
        THEN Raised("IndexError")
        ELSE IF m.source_match_row_range.has = "absent"
        THEN Raised("AttributeError")
        ELSE IF Unalignable(value_column, matched_rows)
        THEN Raised("IndexingError")
        ELSE Returned(DropNa(BoolIndex(value_column, matched_rows)))

_find_target_positions(m, tdata) ==
    IF m.target_file \notin DOMAIN tdata THEN Raised("ValueError")
    ELSE IF ColumnIndexFails(m.target_match_coordinate) THEN Raised("ValueError")
    ELSE
    LET df == tdata[m.target_file]
        match_col_index == _get_column_index(m.target_match_coordinate)
        match_column == Windowed(ColumnOf(df, match_col_index),
                                 m.target_match_row_range)
        matched_rows == _apply_match_operator(match_column,
                            m.target_match_value, m.match_operator)
    IN  IF IndexTooLarge(match_col_index, df) THEN Raised("ValueError")
        ELSE IF ColumnOutOfBounds(df, match_col_index) THEN Raised("IndexError")
        ELSE IF m.target_match_row_range.has = "absent"
        THEN Raised("AttributeError")
        ELSE Returned(TrueLabels(matched_rows))

\* CandidateValue with the first value reused instead of the last
CandidateValueFirst(source_values, i) ==
    IF i <= Len(source_values) THEN source_values[i] ELSE source_values[1]

\* The value offered to the i-th located position (i counts from 1):
\* source_values[i] if there is one, else the last source value.
CandidateValue(source_values, i) ==
    IF i <= Len(source_values) THEN source_values[i]
    ELSE source_values[Len(source_values)]

\* MayWrite with the overwrite policy ignored
MayWriteAlways(overwrite_existing, old_value) == TRUE

\* mapping.overwrite_existing or pd.isna(old_value)
MayWrite(overwrite_existing, old_value) == overwrite_existing \/ isna(old_value)

\* SetCell writing the value into every column of the row
SetCellWholeRow(df, pos, col, value) ==
    Table(df.ncols,
          [r \in 1..Len(df.rows) |->
              IF r = pos + 1 THEN [c \in 1..df.ncols |-> value]
              ELSE df.rows[r]])

\* SetCell writing one row below the position
SetCellShifted(df, pos, col, value) ==
    Table(df.ncols,
          [r \in 1..Len(df.rows) |->
              IF r = pos + 2
              THEN [c \in 1..df.ncols |->
                       IF c = col + 1 THEN value ELSE df.rows[r][c]]
              ELSE df.rows[r]])

\* df.iloc[pos, col] = value on a table
SetCell(df, pos, col, value) ==
    Table(df.ncols,
          [r \in 1..Len(df.rows) |->
              IF r = pos + 1
              THEN [c \in 1..df.ncols |->
                       IF c = col + 1 THEN value ELSE df.rows[r][c]]
              ELSE df.rows[r]])

\* The loop of _insert_values from the i-th position on
RECURSIVE InsertLoop(_, _, _, _, _, _)
InsertLoop(df, col, source_values, target_positions, overwrite_existing, i) ==
    IF i > Len(target_positions) THEN df
    ELSE
    LET pos == target_positions[i]
        old_value == df.rows[pos + 1][col + 1]
        written ==
            IF Len(source_values) > 0 /\ MayWrite(overwrite_existing, old_value)
            THEN SetCell(df, pos, col, CandidateValue(source_values, i))
            ELSE df
    IN  InsertLoop(written, col, source_values, target_positions,
                   overwrite_existing, i + 1)

RaisedData(e, tdata) == [ok |-> FALSE, err |-> e, data |-> tdata]
ReturnedData(tdata) == [ok |-> TRUE, err |-> "", data |-> tdata]

_insert_values(m, tdata, source_values, target_positions) ==
    IF m.target_file \notin DOMAIN tdata THEN RaisedData("KeyError", tdata)
    ELSE IF ColumnIndexFails(m.target_insert_coordinate)
    THEN RaisedData("ValueError", tdata)
    ELSE
    LET df == tdata[m.target_file]
        insert_col_index == _get_column_index(m.target_insert_coordinate)
        col == IF insert_col_index < 0 THEN insert_col_index + df.ncols
               ELSE insert_col_index
    IN  IF IndexTooLarge(insert_col_index, df) THEN RaisedData("ValueError", tdata)
        ELSE IF ColumnOutOfBounds(df, insert_col_index)
        THEN RaisedData("IndexError", tdata)
        ELSE ReturnedData(
                [tdata EXCEPT ![m.target_file] =
                    InsertLoop(df, col, source_values, target_positions,
                               m.overwrite_existing, 1)])

\* execute_mapping without its two early returns
execute_mapping_unguarded(m, sdata, tdata) ==
    LET source_values == _extract_source_values(m, sdata)
        target_positions == _find_target_positions(m, tdata)
    IN  IF ~source_values.ok THEN RaisedData(source_values.err, tdata)
        ELSE IF ~target_positions.ok THEN RaisedData(target_positions.err, tdata)
        ELSE _insert_values(m, tdata, source_values.values,
                            target_positions.values)

execute_mapping(m, sdata, tdata) ==
    LET source_values == _extract_source_values(m, sdata)
        target_positions == _find_target_positions(m, tdata)
    IN  IF ~source_values.ok THEN RaisedData(source_values.err, tdata)
        ELSE IF Len(source_values.values) = 0 THEN ReturnedData(tdata)
        ELSE IF ~target_positions.ok THEN RaisedData(target_positions.err, tdata)
        ELSE IF Len(target_positions.values) = 0 THEN ReturnedData(tdata)
        ELSE _insert_values(m, tdata, source_values.values,
                            target_positions.values)

\* The errors validate_mapping appends for one table set: the file key,
\* then the two columns of the rule on that table.
ValidateSide(file, data, first, second, tag) ==
    IF file \notin DOMAIN data THEN <<<<tag, "file_missing">>>>
    ELSE IF ColumnIndexFails(first) \/ ColumnIndexFails(second)
    THEN <<<<tag, "column_config_error">>>>
    ELSE (IF IndexTooLarge(_get_column_index(first), data[file])
          THEN <<<<tag, "first_column_out_of_range">>>> ELSE <<>>)
         \o
         (IF IndexTooLarge(_get_column_index(second), data[file])
          THEN <<<<tag, "second_column_out_of_range">>>> ELSE <<>>)

validate_mapping(m, sdata, tdata) ==
    ValidateSide(m.source_file, sdata, m.source_match_coordinate,
                 m.source_value_coordinate, "source")
    \o
    ValidateSide(m.target_file, tdata, m.target_match_coordinate,
                 m.target_insert_coordinate, "target")

----------------------------------------------------------------------------
(* Inputs of the engine *)

SrcRows == 2
TgtRows == 2

Sa == Str(<<"a">>)
Sb == Str(<<"b">>)
SEmpty == Str(<<>>)

KeyCells == {Sa, Sb}
ValueCells == {Null, Num(2), Num(3)}
TargetCells == {Null, Num(9)}
InsertCells == {Null, SEmpty, Num(9)}

\* Two-column tables: a key column and a data column
TablesOf(nrows, dataCells) ==
    {Table(2, [i \in 1..nrows |-> <<k[i], d[i]>>]) :
        k \in [1..nrows -> KeyCells], d \in [1..nrows -> dataCells]}

SourceTables == TablesOf(SrcRows, ValueCells)
TargetTables == TablesOf(TgtRows, TargetCells)

OtherTable == Table(1, <<<<Num(9)>>>>)

ColA == from_string(<<"A">>).c
ColB == from_string(<<"b">>).c
ColC == from_string(<<"C">>).c
SingleA1 == from_string(<<"A", "1">>).c
RowOne == from_string(<<"1">>).c
RangeA1B2 == from_string(<<"A", "1", ":", "B", "2">>).c
\* ExcelCoordinate(column="", coord_type="column")
ColEmpty == Coordinate(<<>>, 0, <<>>, 0, "column")

CoordChoices == {ColA, ColB, ColC, SingleA1, RowOne, RangeA1B2, ColEmpty}

BaseRule ==
    [DataMapping("S", ColA, Sa, ColB, "T", ColA, Sa, ColB, "EQUALS", TRUE)
        EXCEPT !.source_match_row_range = RangeNone,
               !.target_match_row_range = RangeNone]

RangeChoices == {NoRangeAttr, RangeNone, RowRange(1, 1), RowRange(2, 3)}

MatchValues == {Sa, Sb, Num(2)}

\* Rules that differ from the base rule in one respect (and in the
\* overwrite flag)
EngineRules ==
    LET oneChange ==
          {[BaseRule EXCEPT !.match_operator = op] : op \in Operators \cup {"UNKNOWN"}}
          \cup {[BaseRule EXCEPT !.source_match_coordinate = c] : c \in CoordChoices}
          \cup {[BaseRule EXCEPT !.source_value_coordinate = c] : c \in CoordChoices}
          \cup {[BaseRule EXCEPT !.target_match_coordinate = c] : c \in CoordChoices}
          \cup {[BaseRule EXCEPT !.target_insert_coordinate = c] : c \in CoordChoices}
          \cup {[BaseRule EXCEPT !.source_file = "X"],
                [BaseRule EXCEPT !.target_file = "X"],
                [BaseRule EXCEPT !.source_file = "X", !.target_file = "X"]}
          \cup {[BaseRule EXCEPT !.source_match_row_range = r] : r \in RangeChoices}
          \cup {[BaseRule EXCEPT !.target_match_row_range = r] : r \in RangeChoices}
          \cup {[BaseRule EXCEPT !.source_match_row_range = NoRangeAttr,
                                 !.target_match_row_range = NoRangeAttr]}
          \cup {[BaseRule EXCEPT !.source_match_value = v] : v \in MatchValues}
          \cup {[BaseRule EXCEPT !.target_match_value = v] : v \in MatchValues}
        \* an ordering operator with a non-numeric match value, over a
        \* row window
        windowed ==
          {[BaseRule EXCEPT !.match_operator = "GREATER_THAN",
                            !.source_match_row_range = RowRange(2, 3)]}
    IN  oneChange \cup windowed
        \cup {[r EXCEPT !.overwrite_existing = FALSE] : r \in {BaseRule}}

----------------------------------------------------------------------------
(* The engine run on one rule: validate_mapping, then execute_mapping *)

NoResult == [ok |-> TRUE, err |-> "none", data |-> <<>>]

ColumnsIdle ==
    /\ columns = <<>>
    /\ unique_columns = <<>>

SheetIdle ==
    /\ read_outcomes = <<>>
    /\ sheet_df = <<>>

LabelsIdle ==
    /\ max_cols = 0
    /\ column_names = <<>>

LoaderIdle ==
    /\ file_paths = <<>>
    /\ data_frames = <<>>
    /\ loaded_files = <<>>

StoreIdle ==
    /\ frames = <<>>
    /\ dicts = <<>>
    /\ handles = <<>>

ProcessorIdle ==
    /\ ColumnsIdle
    /\ SheetIdle
    /\ LabelsIdle
    /\ LoaderIdle
    /\ StoreIdle

EvalIdle ==
    /\ eval_column = <<>>
    /\ eval_value = <<>>
    /\ eval_operator = ""
    /\ eval_mask = <<>>

Idle ==
    /\ EvalIdle
    /\ ProcessorIdle
    /\ result = NoResult
    /\ errors = <<>>
    /\ mappings = <<>>
    /\ current_target_data = <<>>
    /\ ins_values = <<>>
    /\ ins_positions = <<>>
    /\ coord_str = <<>>
    /\ coord = Fail
    /\ col_index = 0
    /\ col_letters = <<>>

NoMapping == DataMapping("", NoCoordinate, Null, NoCoordinate, "", NoCoordinate,
                         Null, NoCoordinate, "", FALSE)

InitEngine ==
    /\ pc = "idle"
    /\ source_data \in [{"S"} -> SourceTables]
    /\ \E t \in TargetTables : target_data = [k \in {"T", "U"} |->
                                     IF k = "T" THEN t ELSE OtherTable]
    /\ mapping = NoMapping
    /\ Idle

\* The caller configures a rule and validates it
ValidateMapping ==
    /\ pc = "idle"
    /\ \E m \in EngineRules :
          /\ mapping' = m
          /\ errors' = validate_mapping(m, source_data, target_data)
    /\ pc' = "validated"
    /\ UNCHANGED <<eval_column, eval_value, eval_operator, eval_mask>>
    /\ UNCHANGED processor_vars
    /\ UNCHANGED <<source_data, target_data, result, mappings,
                   current_target_data, ins_values, ins_positions,
                   coord_str, coord, col_index, col_letters>>

ExecuteMapping ==
    /\ pc = "validated"
    /\ result' = execute_mapping(mapping, source_data, target_data)
    /\ pc' = "executed"
    /\ UNCHANGED <<eval_column, eval_value, eval_operator, eval_mask>>
    /\ UNCHANGED processor_vars
    /\ UNCHANGED <<source_data, target_data, mapping, errors, mappings,
                   current_target_data, ins_values, ins_positions,
                   coord_str, coord, col_index, col_letters>>

NextEngine == ValidateMapping \/ ExecuteMapping

SpecEngine == InitEngine /\ [][NextEngine]_vars

----------------------------------------------------------------------------
(* Claims about one rule (SpecEngine) *)

KeysPresent ==
    /\ mapping.source_file \in DOMAIN source_data
    /\ mapping.target_file \in DOMAIN target_data

SrcDf == source_data[mapping.source_file]
TgtDf == target_data[mapping.target_file]

Supported(c) == c.coord_type \in {"column", "single"}

AllSupported ==
    /\ Supported(mapping.source_match_coordinate)
    /\ Supported(mapping.source_value_coordinate)
    /\ Supported(mapping.target_match_coordinate)
    /\ Supported(mapping.target_insert_coordinate)

\* The index a coordinate letter stands for lies in 0..ncols-1
Inside(c, df) == column_to_index(c.column) \in 0..(df.ncols - 1)

AllInside ==
    /\ Inside(mapping.source_match_coordinate, SrcDf)
    /\ Inside(mapping.source_value_coordinate, SrcDf)
    /\ Inside(mapping.target_match_coordinate, TgtDf)
    /\ Inside(mapping.target_insert_coordinate, TgtDf)

NoRowRanges ==
    /\ mapping.source_match_row_range.has # "set"
    /\ mapping.target_match_row_range.has # "set"

\* The values the Extract phase is to yield over the whole source table
ExpectedValues ==
    LET mask == _apply_match_operator(
                    ColumnOf(SrcDf, column_to_index(mapping.source_match_coordinate.column)),
                    mapping.source_match_value, mapping.match_operator)
        values == ColumnOf(SrcDf, column_to_index(mapping.source_value_coordinate.column))
    IN  DropNa(Pick(values.val, mask.val))

\* The rows the Locate phase is to yield over the whole target table
ExpectedPositions ==
    LET mask == _apply_match_operator(
                    ColumnOf(TgtDf, column_to_index(mapping.target_match_coordinate.column)),
                    mapping.target_match_value, mapping.match_operator)
    IN  Pick(mask.idx, mask.val)

InsertColumn == column_to_index(mapping.target_insert_coordinate.column)

CellOf(df, pos, col) == df.rows[pos + 1][col + 1]

\* C1: for a rule with in-bounds column/single coordinates, no row ranges
\* and overwriteExisting = true, when the matching source rows yield values
\* v0..v(m-1) and the matching target rows are p0 < .. < p(k-1) with
\* m >= k >= 1, execute_mapping returns a target table whose insert-column
\* cell at row p_i is v_i for every i < k.
C1_ExecuteMappingInserts ==
    (/\ pc = "executed"
     /\ KeysPresent /\ AllSupported /\ AllInside /\ NoRowRanges
     /\ mapping.overwrite_existing
     /\ Len(ExpectedValues) >= Len(ExpectedPositions)
     /\ Len(ExpectedPositions) >= 1)
    => /\ result.ok
       /\ \A i \in 1..Len(ExpectedPositions) :
             CellOf(result.data[mapping.target_file], ExpectedPositions[i],
                    InsertColumn) = ExpectedValues[i]

\* The same statement for the rules that carry both row-range attributes
\* (set to None): the part of C1 the code meets.
C1_WithRangeAttributes ==
    (/\ mapping.source_match_row_range.has = "none"
     /\ mapping.target_match_row_range.has = "none")
    => C1_ExecuteMappingInserts

Extracted == _extract_source_values(mapping, source_data)
Located == _find_target_positions(mapping, target_data)

\* C4: when Extract yields no value, or Extract yields values and Locate
\* yields no position, execute_mapping does not raise and returns the
\* target tables with every cell as before the call.
C4_NoMatchIsNoOp ==
    (/\ pc = "executed"
     /\ Extracted.ok
     /\ \/ Extracted.values = <<>>
        \/ Located.ok /\ Located.values = <<>>)
    => result.ok /\ result.data = target_data

\* C4 witness: values were extracted, no target row matched, and the call
\* returned.
C4_Witness ==
    /\ pc = "executed"
    /\ Extracted.ok /\ Extracted.values # <<>>
    /\ Located.ok /\ Located.values = <<>>
    /\ result.ok

\* C7: Extract fails whenever the source match or source value index is
\* outside the source table's columns, Locate fails whenever the target
\* match index is outside the target table's columns, Insert fails whenever
\* the insert index is outside them, and execute_mapping then raises with
\* no target cell changed.
C7_OutOfBoundsSurfaced ==
    (pc = "executed" /\ KeysPresent /\ AllSupported)
    => /\ (~Inside(mapping.source_match_coordinate, SrcDf)
           \/ ~Inside(mapping.source_value_coordinate, SrcDf))
          => (~Extracted.ok /\ ~result.ok /\ result.data = target_data)
       /\ ~Inside(mapping.target_match_coordinate, TgtDf) => ~Located.ok
       /\ ~Inside(mapping.target_insert_coordinate, TgtDf)
          => ~_insert_values(mapping, target_data, <<Num(2)>>, <<0>>).ok

\* The problems C8 lists: a missing file key, and each column index that
\* is out of bounds for its table.
ListedProblems ==
    LET srcHere == mapping.source_file \in DOMAIN source_data
        tgtHere == mapping.target_file \in DOMAIN target_data
        srcResolved == /\ srcHere
                       /\ Supported(mapping.source_match_coordinate)
                       /\ Supported(mapping.source_value_coordinate)
        tgtResolved == /\ tgtHere
                       /\ Supported(mapping.target_match_coordinate)
                       /\ Supported(mapping.target_insert_coordinate)
    IN  {p \in {"source_file", "target_file", "source_match", "source_value",
                "target_match", "target_insert"} :
            \/ p = "source_file" /\ ~srcHere
            \/ p = "target_file" /\ ~tgtHere
            \/ p = "source_match" /\ srcResolved
               /\ ~Inside(mapping.source_match_coordinate, SrcDf)
            \/ p = "source_value" /\ srcResolved
               /\ ~Inside(mapping.source_value_coordinate, SrcDf)
            \/ p = "target_match" /\ tgtResolved
               /\ ~Inside(mapping.target_match_coordinate, TgtDf)
            \/ p = "target_insert" /\ tgtResolved
               /\ ~Inside(mapping.target_insert_coordinate, TgtDf)}

\* C8: validate_mapping leaves both table sets as they were and returns a
\* non-empty error list whenever a file key is absent or a resolved column
\* index is out of bounds for its table, one error for each such problem.
C8_ValidateReportsProblems ==
    pc \in {"validated", "executed"}
    => /\ ListedProblems # {} => errors # <<>>
       /\ Len(errors) >= Cardinality(ListedProblems)

\* The problems validate_mapping does report: as ListedProblems, with only
\* an index at or above the column count taken as out of bounds.
C8_UpperBoundOnly ==
    (/\ pc \in {"validated", "executed"}
     /\ \A c \in {mapping.source_match_coordinate, mapping.source_value_coordinate,
                  mapping.target_match_coordinate, mapping.target_insert_coordinate} :
           column_to_index(c.column) >= 0)
    => /\ ListedProblems # {} => errors # <<>>
       /\ Len(errors) >= Cardinality(ListedProblems)

----------------------------------------------------------------------------
(* _insert_values on its own (SpecInsert) *)

InsRows == 3
MaxValues == 2

InsertTables ==
    {Table(2, [i \in 1..InsRows |-> <<Sa, d[i]>>]) : d \in [1..InsRows -> InsertCells]}

\* Extracted values: a non-empty list without nulls
RECURSIVE ListsUpTo(_, _)
ListsUpTo(S, n) ==
    IF n = 0 THEN {<<>>}
    ELSE ListsUpTo(S, n - 1)
         \cup {Append(l, x) : l \in {k \in ListsUpTo(S, n - 1) : Len(k) = n - 1}, x \in S}

InsertValueLists == ListsUpTo({Num(2), Num(3)}, MaxValues) \ {<<>>}

\* The rows of a set, in increasing order
RECURSIVE Ascending(_)
Ascending(S) ==
    IF S = {} THEN <<>>
    ELSE LET lo == CHOOSE x \in S : \A y \in S : x <= y
         IN  <<lo>> \o Ascending(S \ {lo})

\* Located positions: a non-empty increasing list of row indices
PositionLists(nrows) == {Ascending(S) : S \in (SUBSET (0..(nrows - 1))) \ {{}}}

InsertRules ==
    {[BaseRule EXCEPT !.target_insert_coordinate = c, !.overwrite_existing = ow] :
        c \in {ColA, ColB, ColC, ColEmpty, RowOne}, ow \in BOOLEAN}

InitInsert ==
    /\ pc = "idle"
    /\ source_data = <<>>
    /\ target_data \in [{"T"} -> InsertTables]
    /\ mapping = NoMapping
    /\ Idle

InsertValues ==
    /\ pc = "idle"
    /\ \E m \in InsertRules, v \in InsertValueLists, p \in PositionLists(InsRows) :
          /\ mapping' = m
          /\ ins_values' = v
          /\ ins_positions' = p
          /\ result' = _insert_values(m, target_data, v, p)
    /\ pc' = "inserted"
    /\ UNCHANGED <<eval_column, eval_value, eval_operator, eval_mask>>
    /\ UNCHANGED processor_vars
    /\ UNCHANGED <<source_data, target_data, errors, mappings,
                   current_target_data, coord_str, coord, col_index, col_letters>>

NextInsert == InsertValues

SpecInsert == InitInsert /\ [][NextInsert]_vars

\* null, or an empty or whitespace-only string
BlankCell(c) == isna(c) \/ (c.t = "str" /\ Strip(c.s) = <<>>)

InsertDone ==
    /\ pc = "inserted"
    /\ result.ok
    /\ Inside(mapping.target_insert_coordinate, TgtDf)

OldCell(i) == CellOf(TgtDf, ins_positions[i], InsertColumn)
NewCell(i) == CellOf(result.data[mapping.target_file], ins_positions[i], InsertColumn)

\* The extracted value paired with the i-th position, the last one when
\* the values run out
PairedValue(i) ==
    IF i <= Len(ins_values) THEN ins_values[i] ELSE ins_values[Len(ins_values)]

\* C2: at each located position the paired value is written if
\* overwriteExisting is true or the current cell is null or an empty or
\* whitespace-only string; otherwise the position keeps its value (and its
\* paired value is used up).
C2_OverwritePolicy ==
    InsertDone
    => \A i \in 1..Len(ins_positions) :
          IF mapping.overwrite_existing \/ BlankCell(OldCell(i))
          THEN NewCell(i) = PairedValue(i)
          ELSE NewCell(i) = OldCell(i)

\* What the code does: only a null cell counts as empty.
C2_NullOnly ==
    InsertDone
    => \A i \in 1..Len(ins_positions) :
          IF mapping.overwrite_existing \/ isna(OldCell(i))
          THEN NewCell(i) = PairedValue(i)
          ELSE NewCell(i) = OldCell(i)

\* C3: with m >= 1 extracted values and k > m positions, position i < m is
\* offered value i and every position i >= m the last value: the cell ends
\* as that value or, when the overwrite policy skips it, as it was, and it
\* is that value whenever overwriteExisting is true or the cell was null.
C3_ShortfallReusesLast ==
    InsertDone
    => \A i \in 1..Len(ins_positions) :
          /\ NewCell(i) \in {OldCell(i), PairedValue(i)}
          /\ (mapping.overwrite_existing \/ isna(OldCell(i)))
             => NewCell(i) = PairedValue(i)

\* C3 witness: more positions than values, and the last position, which
\* held another value, now holds the last extracted value.
C3_Witness ==
    /\ InsertDone
    /\ Len(ins_positions) > Len(ins_values)
    /\ Len(ins_values) >= 2
    /\ NewCell(Len(ins_positions)) = ins_values[Len(ins_values)]
    /\ OldCell(Len(ins_positions)) # ins_values[Len(ins_values)]

----------------------------------------------------------------------------
(* execute_multiple_mappings (SpecMulti) *)

MaxMappings == 2

\* Source tables whose key column alternates a, b, a, ...
MultiSourceTables ==
    {Table(2, [i \in 1..SrcRows |-> <<IF i % 2 = 1 THEN Sa ELSE Sb, d[i]>>]) :
        d \in [1..SrcRows -> ValueCells]}

\* Target tables with the same alternating key column
MultiTargetTables ==
    {Table(2, [i \in 1..TgtRows |-> <<IF i % 2 = 1 THEN Sa ELSE Sb, d[i]>>]) :
        d \in [1..TgtRows -> TargetCells]}

MultiRules ==
    {BaseRule,
     [BaseRule EXCEPT !.source_match_value = Sb, !.overwrite_existing = FALSE],
     [BaseRule EXCEPT !.source_match_value = Sb, !.target_match_coordinate = ColB,
                      !.target_match_value = Num(2)],
     [BaseRule EXCEPT !.source_file = "X"],
     [BaseRule EXCEPT !.target_insert_coordinate = ColC],
     [BaseRule EXCEPT !.target_insert_coordinate = RangeA1B2],
     [BaseRule EXCEPT !.source_match_row_range = NoRangeAttr,
                      !.target_match_row_range = NoRangeAttr]}

\* The target tables handed to execute_mapping for the next rule
\* (line 400: the running copy, not the caller's tables)
\* RunningTables with the caller's tables passed instead
RunningTablesOriginal(current, original) == original

RunningTables(current, original) == current

\* try/except around one rule with the exception propagated
AfterMappingPropagates(out, current) ==
    IF out.ok THEN [pc |-> "loop", data |-> out.data]
    ELSE [pc |-> "raised", data |-> current]

\* try: current_target_data = execute_mapping(...)
\* except Exception: continue
AfterMapping(out, current) ==
    IF out.ok THEN [pc |-> "loop", data |-> out.data]
    ELSE [pc |-> "loop", data |-> current]

\* The loop of execute_multiple_mappings over the rules ms, from the
\* running tables current
RECURSIVE MultiLoop(_, _, _, _)
MultiLoop(ms, sdata, tdata, current) ==
    IF Len(ms) = 0 THEN current
    ELSE MultiLoop(Tail(ms), sdata, tdata,
                   AfterMapping(execute_mapping(Head(ms), sdata,
                                    RunningTables(current, tdata)),
                                current).data)

execute_multiple_mappings(ms, sdata, tdata) ==
    ReturnedData(MultiLoop(ms, sdata, tdata, tdata))

InitMulti ==
    /\ pc = "called"
    /\ source_data \in [{"S"} -> MultiSourceTables]
    /\ \E t \in MultiTargetTables : target_data = [k \in {"T", "U"} |->
                                          IF k = "T" THEN t ELSE OtherTable]
    /\ mapping = NoMapping
    /\ Idle

\* current_target_data = target_data.copy()
BeginMultiple ==
    /\ pc = "called"
    /\ current_target_data' = target_data
    /\ pc' = "loop"
    /\ UNCHANGED <<eval_column, eval_value, eval_operator, eval_mask>>
    /\ UNCHANGED processor_vars
    /\ UNCHANGED <<source_data, target_data, mapping, result, errors, mappings,
                   ins_values, ins_positions, coord_str, coord, col_index,
                   col_letters>>

\* One iteration of the loop over the rule list; the list is an input, so
\* its next element is any rule.
RunNextMapping ==
    /\ pc = "loop"
    /\ Len(mappings) < MaxMappings
    /\ \E m \in MultiRules :
          LET out == execute_mapping(m, source_data,
                         RunningTables(current_target_data, target_data))
              after == AfterMapping(out, current_target_data)
          IN  /\ mappings' = Append(mappings, m)
              /\ mapping' = m
              /\ current_target_data' = after.data
              /\ pc' = after.pc
    /\ UNCHANGED <<eval_column, eval_value, eval_operator, eval_mask>>
    /\ UNCHANGED processor_vars
    /\ UNCHANGED <<source_data, target_data, result, errors,
                   ins_values, ins_positions, coord_str, coord, col_index,
                   col_letters>>

\* The list is exhausted: return current_target_data
ReturnMultiple ==
    /\ pc = "loop"
    /\ result' = ReturnedData(current_target_data)
    /\ pc' = "returned"
    /\ UNCHANGED <<eval_column, eval_value, eval_operator, eval_mask>>
    /\ UNCHANGED processor_vars
    /\ UNCHANGED <<source_data, target_data, mapping, errors, mappings,
                   current_target_data, ins_values, ins_positions, coord_str,
                   coord, col_index, col_letters>>

NextMulti == BeginMultiple \/ RunNextMapping \/ ReturnMultiple

SpecMulti == InitMulti /\ [][NextMulti]_vars

\* execute_mapping applied rule by rule, from the left, to the tables
\* tdata; not ok as soon as one rule raises.
RECURSIVE FoldMappings(_, _)
FoldMappings(ms, tdata) ==
    IF Len(ms) = 0 THEN ReturnedData(tdata)
    ELSE LET prev == FoldMappings(SubSeq(ms, 1, Len(ms) - 1), tdata)
         IN  IF ~prev.ok THEN prev
             ELSE execute_mapping(ms[Len(ms)], source_data, prev.data)

\* C5: for a list of rules none of which raises, execute_multiple_mappings
\* returns what applying execute_mapping rule by rule, in list order, to
\* the initial target tables gives: each rule reads the tables as left by
\* the rules before it.
C5_SequentialFold ==
    (pc = "returned" /\ FoldMappings(mappings, target_data).ok)
    => result.data = FoldMappings(mappings, target_data).data

\* C5 witness: two rules ran without raising; the second changes nothing
\* on the initial tables but did change the tables the first one left.
C5_Witness ==
    /\ pc = "returned"
    /\ Len(mappings) = 2
    /\ FoldMappings(mappings, target_data).ok
    /\ execute_mapping(mappings[2], source_data, target_data).data = target_data
    /\ result.data # execute_mapping(mappings[1], source_data, target_data).data

\* C6: execute_multiple_mappings never raises; when a rule raises, the
\* running target tables after it are the running tables before it, and
\* the loop goes on to the later rules.
C6_FailureIsolation ==
    [][(/\ pc = "loop"
        /\ Len(mappings') = Len(mappings) + 1
        /\ ~execute_mapping(mappings'[Len(mappings')], source_data,
                            current_target_data).ok)
       => (pc' = "loop" /\ current_target_data' = current_target_data)]_vars

\* C6 witness: the first rule raised, a later rule wrote into the tables,
\* and the call returned them.
C6_Witness ==
    /\ pc = "returned"
    /\ Len(mappings) = 2
    /\ ~execute_mapping(mappings[1], source_data, target_data).ok
    /\ result.ok
    /\ result.data # target_data

----------------------------------------------------------------------------
(* ExcelCoordinate conversions (SpecCoord) *)

MaxTextLen == 5
MaxColLen == 3
MaxIndex == 730

TextChars == {"A", "b", "0", "1", "5", ":", " "}
ColumnChars == {"A", "B", "Y", "Z"}

TextsOver(chars, n) == UNION {[1..k -> chars] : k \in 0..n}

CoordTexts == TextsOver(TextChars, MaxTextLen)
ColumnTexts == TextsOver(ColumnChars, MaxColLen) \ {<<>>}

CoordIdle ==
    /\ ProcessorIdle
    /\ source_data = <<>>
    /\ target_data = <<>>
    /\ mapping = NoMapping
    /\ result = NoResult
    /\ errors = <<>>
    /\ mappings = <<>>
    /\ current_target_data = <<>>
    /\ ins_values = <<>>
    /\ ins_positions = <<>>

\* The inputs of the conversions: a coordinate text, a column index or
\* a column's letters.
InitCoord ==
    /\ CoordIdle
    /\ EvalIdle
    /\ coord = Fail
    /\ \/ pc = "text" /\ coord_str \in CoordTexts
          /\ col_index = 0 /\ col_letters = <<>>
       \/ pc = "index" /\ col_index \in 0..MaxIndex
          /\ coord_str = <<>> /\ col_letters = <<>>
       \/ pc = "letters" /\ col_letters \in ColumnTexts
          /\ coord_str = <<>> /\ col_index = 0

\* coord = ExcelCoordinate.from_string(coord_str)
FromString ==
    /\ pc = "text"
    /\ coord' = from_string(coord_str)
    /\ pc' = "parsed"
    /\ UNCHANGED <<eval_column, eval_value, eval_operator, eval_mask>>
    /\ UNCHANGED processor_vars
    /\ UNCHANGED <<source_data, target_data, mapping, result, errors, mappings,
                   current_target_data, ins_values, ins_positions, coord_str,
                   col_index, col_letters>>

\* coord_str = str(coord)
CoordStr ==
    /\ pc = "parsed"
    /\ coord.ok
    /\ coord_str' = CoordToStr(coord.c)
    /\ pc' = "printed"
    /\ UNCHANGED <<eval_column, eval_value, eval_operator, eval_mask>>
    /\ UNCHANGED processor_vars
    /\ UNCHANGED <<source_data, target_data, mapping, result, errors, mappings,
                   current_target_data, ins_values, ins_positions, coord,
                   col_index, col_letters>>

\* col_index = ExcelCoordinate.column_to_index(col_letters)
ColumnToIndex ==
    /\ pc = "letters"
    /\ col_index' = column_to_index(col_letters)
    /\ pc' = "indexed"
    /\ UNCHANGED <<eval_column, eval_value, eval_operator, eval_mask>>
    /\ UNCHANGED processor_vars
    /\ UNCHANGED <<source_data, target_data, mapping, result, errors, mappings,
                   current_target_data, ins_values, ins_positions, coord_str,
                   coord, col_letters>>

\* col_letters = ExcelCoordinate.index_to_column(col_index)
IndexToColumn ==
    /\ pc = "index"
    /\ col_letters' = index_to_column(col_index)
    /\ pc' = "lettered"
    /\ UNCHANGED <<eval_column, eval_value, eval_operator, eval_mask>>
    /\ UNCHANGED processor_vars
    /\ UNCHANGED <<source_data, target_data, mapping, result, errors, mappings,
                   current_target_data, ins_values, ins_positions, coord_str,
                   coord, col_index>>

NextCoord == FromString \/ CoordStr \/ ColumnToIndex \/ IndexToColumn

SpecCoord == InitCoord /\ [][NextCoord]_vars

\* C9: the column letters and the 0-based column index convert into each
\* other without loss: the index of a column's letters converts back to
\* those letters, the letters of an index convert back to that index, and
\* 0 is A, 25 is Z, 26 is AA.
C9_ColumnRoundTrip ==
    /\ pc = "indexed" => index_to_column(col_index) = col_letters
    /\ pc = "lettered" => column_to_index(col_letters) = col_index
    /\ (pc = "lettered" /\ col_index = 0) => col_letters = <<"A">>
    /\ (pc = "lettered" /\ col_index = 25) => col_letters = <<"Z">>
    /\ (pc = "lettered" /\ col_index = 26) => col_letters = <<"A", "A">>
    /\ (pc = "indexed" /\ col_letters = <<"A">>) => col_index = 0
    /\ (pc = "indexed" /\ col_letters = <<"Z">>) => col_index = 25
    /\ (pc = "indexed" /\ col_letters = <<"A", "A">>) => col_index = 26

\* C9 witness: a three-letter column has been converted to its index.
C9_Witness ==
    /\ pc = "indexed"
    /\ col_letters = <<"A", "Z", "B">>
    /\ col_index = 1353
    /\ index_to_column(col_index) = col_letters

\* C10: the text of a coordinate returned by from_string parses again to
\* a coordinate equal to it in every field.
C10_ParseRoundTrip ==
    pc = "printed" => from_string(coord_str) = coord

\* C11 as stated: the text A1:A1 parses to the whole column A.
C11_CellPairIsColumn ==
    (pc = "parsed" /\ coord_str = <<"A", "1", ":", "A", "1">>)
    => (coord.ok /\ coord.c.coord_type = "column" /\ coord.c.column = <<"A">>)

\* C11 amended: the text A1:A1 parses to the one-cell range from A1 to
\* A1, and it is the text A:A that parses to the whole column A.
C11_CellPairIsRange ==
    /\ (pc = "parsed" /\ coord_str = <<"A", "1", ":", "A", "1">>)
       => coord = Ok(Coordinate(<<"A">>, 1, <<"A">>, 1, "range"))
    /\ (pc = "parsed" /\ coord_str = <<"A", ":", "A">>)
       => coord = Ok(Coordinate(<<"A">>, 0, <<>>, 0, "column"))

\* C11 witness: A1:A1 has been parsed, to a range.
C11_Witness ==
    /\ pc = "parsed"
    /\ coord_str = <<"A", "1", ":", "A", "1">>
    /\ coord.ok
    /\ coord.c.coord_type = "range"

\* The two sides of a text with one colon, as upper-case trimmed texts.
NormText == Strip(Upper(coord_str))
OneColon == Cardinality(Colons(NormText)) = 1
ColonAt == CHOOSE i \in Colons(NormText) : TRUE
LeftSide == Strip(SubSeq(NormText, 1, ColonAt - 1))
RightSide == Strip(SubSeq(NormText, ColonAt + 1, Len(NormText)))

\* t is a cell text split after position k: no digit up to k, only
\* digits after it, and a row number of at least 1.
CellSplit(t, k) ==
    /\ k >= 1
    /\ k < Len(t)
    /\ \A i \in 1..k : ~IsDigitCh(t[i])
    /\ \A i \in (k + 1)..Len(t) : IsDigitCh(t[i])
    /\ DigitsToInt(SubSeq(t, k + 1, Len(t))) >= 1

ValidCell(t) == \E k \in 1..Len(t) : CellSplit(t, k)
CellColumn(t) == SubSeq(t, 1, CHOOSE k \in 1..Len(t) : CellSplit(t, k))
CellRow(t) ==
    DigitsToInt(SubSeq(t, (CHOOSE k \in 1..Len(t) : CellSplit(t, k)) + 1, Len(t)))

\* C12: a text L:R with the same all-letter text on both sides is the
\* column L; with the same all-digit text on both sides it is the row L;
\* otherwise it is the range from cell L to cell R when both are cells,
\* and the parse fails when a side is not a cell or there are two colons.
C12_RangeClassification ==
    /\ (pc = "parsed" /\ OneColon) =>
          IF IsAlpha(LeftSide) /\ LeftSide = RightSide
          THEN coord = Ok(Coordinate(LeftSide, 0, <<>>, 0, "column"))
          ELSE IF IsDigit(LeftSide) /\ LeftSide = RightSide
          THEN coord = Ok(Coordinate(<<>>, DigitsToInt(LeftSide), <<>>, 0, "row"))
          ELSE IF ValidCell(LeftSide) /\ ValidCell(RightSide)
          THEN coord = Ok(Coordinate(CellColumn(LeftSide), CellRow(LeftSide),
                                     CellColumn(RightSide), CellRow(RightSide),
                                     "range"))
          ELSE ~coord.ok
    /\ (pc = "parsed" /\ Cardinality(Colons(NormText)) > 1) => ~coord.ok
    /\ (pc = "parsed" /\ coord_str = <<"1", ":", "1">>)
       => coord = Ok(Coordinate(<<>>, 1, <<>>, 0, "row"))
    /\ (pc = "parsed" /\ coord_str = <<"A", "1", ":", "b", "5">>)
       => coord = Ok(Coordinate(<<"A">>, 1, <<"B">>, 5, "range"))
    /\ (pc = "parsed" /\ coord_str \in {<<"A", ":", "b">>, <<"A", "1", ":", "b">>,
                                        <<"A", ":", "A", ":", "A">>})
       => ~coord.ok

\* C12 witness: a text with two different cells was parsed, to a range.
C12_Witness ==
    /\ pc = "parsed"
    /\ coord_str = <<"A", "1", ":", "b", "5">>
    /\ coord.ok
    /\ coord.c.coord_type = "range"
    /\ coord.c.end_row = 5

\* The kind invariant of a coordinate.
LettersOnly(t) == Len(t) > 0 /\ \A i \in 1..Len(t) : IsUpperCh(t[i])

KindInvariant(c) ==
    IF c.coord_type = "single"
    THEN LettersOnly(c.column) /\ c.row >= 1 /\ c.end_column = <<>> /\ c.end_row = 0
    ELSE IF c.coord_type = "column"
    THEN LettersOnly(c.column) /\ c.row = 0 /\ c.end_column = <<>> /\ c.end_row = 0
    ELSE IF c.coord_type = "row"
    THEN c.column = <<>> /\ c.row >= 1 /\ c.end_column = <<>> /\ c.end_row = 0
    ELSE IF c.coord_type = "range"
    THEN /\ LettersOnly(c.column) /\ c.row >= 1
         /\ LettersOnly(c.end_column) /\ c.end_row >= 1
    ELSE FALSE

\* C13: from_string either fails or returns a coordinate that satisfies
\* the invariant of its kind; texts with a row number below 1 and texts
\* with no letters prefix or digits suffix are rejected.
C13_ParseNeverGuesses ==
    /\ (pc = "parsed" /\ coord.ok) => KindInvariant(coord.c)
    /\ (pc = "parsed" /\ coord_str \in {<<"A", "0">>, <<"0">>, <<"0", ":", "0">>,
                                        <<>>, <<"1", "A">>, <<"A", "1", "b">>})
       => ~coord.ok

----------------------------------------------------------------------------
(* _apply_match_operator on its own (SpecEval) *)

MaxEvalRows == 2

S202 == Str(<<"2", "0", "2">>)
SBlank == Str(<<" ", " ">>)
Sx == Str(<<"x">>)

EvalCells == {Null, SEmpty, SBlank, Sa, Sx, S202, Num(202), Num(2)}

EvalValues == {S202, Sa, Sx, Str(<<"n">>), Str(<<"n", "a", "n">>), SEmpty,
               Num(202), Num(2)}

EvalOperators == Operators \cup {"UNKNOWN"}

\* The cell lists of the columns: every list of up to MaxEvalRows cells,
\* and the four-row column null, '', '  ', 'a'.
EvalCellLists ==
    UNION {[1..k -> EvalCells] : k \in 0..MaxEvalRows}
    \cup {<<Null, SEmpty, SBlank, Sa>>}

\* A column is a whole column (labels 0, 1, ...) or a row window of one
\* that starts at its second row (labels 1, 2, ...).
EvalColumns ==
    {Series([i \in 1..Len(cells) |-> i - 1 + off], cells) :
        cells \in EvalCellLists, off \in {0, 1}}

InitEval ==
    /\ CoordIdle
    /\ coord_str = <<>>
    /\ coord = Fail
    /\ col_index = 0
    /\ col_letters = <<>>
    /\ pc = "args"
    /\ eval_column \in EvalColumns
    /\ eval_value \in EvalValues
    /\ eval_operator \in EvalOperators
    /\ eval_mask = <<>>

\* eval_mask = self._apply_match_operator(eval_column, eval_value, eval_operator)
ApplyMatchOperator ==
    /\ pc = "args"
    /\ eval_mask' = _apply_match_operator(eval_column, eval_value, eval_operator)
    /\ pc' = "masked"
    /\ UNCHANGED <<eval_column, eval_value, eval_operator>>
    /\ UNCHANGED processor_vars
    /\ UNCHANGED <<source_data, target_data, mapping, result, errors, mappings,
                   current_target_data, ins_values, ins_positions, coord_str,
                   coord, col_index, col_letters>>

NextEval == ApplyMatchOperator

SpecEval == InitEval /\ [][NextEval]_vars

EvalRows == 1..Len(eval_column.val)
EvalCell(i) == eval_column.val[i]
Masked(op) == pc = "masked" /\ eval_operator = op
OneBoolPerRow ==
    /\ Len(eval_mask.val) = Len(eval_column.val)
    /\ \A i \in 1..Len(eval_mask.val) : eval_mask.val[i] \in BOOLEAN

\* The cell and the comparison value are the same value of the same type.
DirectEq(c, v) == c.t = v.t /\ c.t # "null" /\ c.s = v.s /\ c.n = v.n
AnyDirectEq == \E i \in EvalRows : DirectEq(EvalCell(i), eval_value)
AllDigits(t) == Len(t) > 0 /\ \A i \in 1..Len(t) : IsDigitCh(t[i])

\* C14: under EQUALS the mask is the direct comparison when that matches
\* a row; when it matches none, a numeric text also matches the cells
\* holding that number and a number also matches the cells whose string
\* form is that number's; [202, 'x'] with '202' gives [true, false].
C14_EqualsFallback ==
    /\ (Masked("EQUALS") /\ AnyDirectEq) =>
          /\ OneBoolPerRow
          /\ \A i \in EvalRows :
                eval_mask.val[i] = DirectEq(EvalCell(i), eval_value)
    /\ (Masked("EQUALS") /\ ~AnyDirectEq) =>
          /\ OneBoolPerRow
          /\ \A i \in EvalRows :
                eval_mask.val[i] =
                   IF eval_value.t = "str" /\ AllDigits(eval_value.s)
                   THEN EvalCell(i).t = "num"
                        /\ EvalCell(i).n = DigitsToInt(eval_value.s)
                   ELSE IF eval_value.t = "num"
                   THEN EvalCell(i).t = "str"
                        /\ EvalCell(i).s = IntToStr(eval_value.n)
                   ELSE FALSE
    /\ (Masked("EQUALS") /\ eval_column.val = <<Num(202), Sx>> /\ eval_value = S202)
       => eval_mask.val = <<TRUE, FALSE>>

\* C14 witness: [202, 'x'] was compared with '202'.
C14_Witness ==
    /\ Masked("EQUALS")
    /\ eval_column.val = <<Num(202), Sx>>
    /\ eval_value = S202
    /\ eval_mask.val = <<TRUE, FALSE>>

\* The cell is null, or a string that is empty or all blanks.
BlankOrNull(c) ==
    c.t = "null" \/ (c.t = "str" /\ \A i \in 1..Len(c.s) : c.s[i] = " ")

\* C15: IS_EMPTY is true exactly for the rows whose cell is null or an
\* empty or all-blank string, IS_NOT_EMPTY exactly for the other rows,
\* whatever the comparison value; [null, '', '  ', 'a'] gives
\* [true, true, true, false].
C15_IsEmpty ==
    /\ Masked("IS_EMPTY") =>
          /\ OneBoolPerRow
          /\ \A i \in EvalRows : eval_mask.val[i] = BlankOrNull(EvalCell(i))
    /\ Masked("IS_NOT_EMPTY") =>
          /\ OneBoolPerRow
          /\ \A i \in EvalRows : eval_mask.val[i] = ~BlankOrNull(EvalCell(i))
    /\ (Masked("IS_EMPTY") /\ eval_column.val = <<Null, SEmpty, SBlank, Sa>>)
       => eval_mask.val = <<TRUE, TRUE, TRUE, FALSE>>

\* C15 witness: IS_EMPTY was applied to [null, '', '  ', 'a'].
C15_Witness ==
    /\ Masked("IS_EMPTY")
    /\ eval_column.val = <<Null, SEmpty, SBlank, Sa>>
    /\ eval_mask.val = <<TRUE, TRUE, TRUE, FALSE>>

\* C16: under CONTAINS, STARTS_WITH and ENDS_WITH the mask entry of a
\* null row is false, whatever the comparison value.
C16_NullNeverMatches ==
    (pc = "masked" /\ eval_operator \in {"CONTAINS", "STARTS_WITH", "ENDS_WITH"})
    => \A i \in EvalRows :
          EvalCell(i).t = "null"
          => (i <= Len(eval_mask.val) /\ eval_mask.val[i] = FALSE)

OrderingOperators == {"GREATER_THAN", "GREATER_EQUAL", "LESS_THAN", "LESS_EQUAL"}

\* The cell is neither a number nor the text of one.
NonNumeric(c) == c.t = "null" \/ (c.t = "str" /\ ~AllDigits(Strip(c.s)))

AllFalse == \A i \in 1..Len(eval_mask.val) : eval_mask.val[i] = FALSE

----------------------------------------------------------------------------
(* Row windows (SpecEngine) *)

\* The 0-based labels of the rows of df with 1-based number s..e, in order
WindowLabels(df, s, e) ==
    SelectSeq(RangeIndex(Len(df.rows)), LAMBDA l : s <= l + 1 /\ l + 1 <= e)

\* Column j of df over those rows
WindowColumn(df, j, s, e) ==
    LET labels == WindowLabels(df, s, e)
    IN  Series(labels, [i \in 1..Len(labels) |-> df.rows[labels[i] + 1][j + 1]])

\* The values Extract is to yield over the rows s..e of the source table
WindowValues(s, e) ==
    LET mask == _apply_match_operator(
                    WindowColumn(SrcDf,
                        column_to_index(mapping.source_match_coordinate.column), s, e),
                    mapping.source_match_value, mapping.match_operator)
        values == WindowColumn(SrcDf,
                      column_to_index(mapping.source_value_coordinate.column), s, e)
    IN  DropNa(Pick(values.val, mask.val))

WellFormed == pc = "executed" /\ KeysPresent /\ AllSupported /\ AllInside

\* With a source row range set, Extract yields the values of the rows
\* s..e only.
SourceWindowHonoured ==
    (WellFormed /\ mapping.source_match_row_range.has = "set")
    => /\ Extracted.ok
       /\ Extracted.values = WindowValues(mapping.source_match_row_range.s,
                                          mapping.source_match_row_range.e)

\* With a target row range set, every position Locate yields is a row of
\* the whole table inside s-1..e-1.
TargetWindowHonoured ==
    (WellFormed /\ mapping.target_match_row_range.has = "set")
    => /\ Located.ok
       /\ \A i \in 1..Len(Located.values) :
             /\ Located.values[i] >= mapping.target_match_row_range.s - 1
             /\ Located.values[i] <= mapping.target_match_row_range.e - 1
             /\ Located.values[i] < Len(TgtDf.rows)

\* With no row range set, Extract and Locate consider every row and the
\* rule executes without error.
NoWindowRuns ==
    (WellFormed /\ NoRowRanges)
    => /\ result.ok
       /\ Extracted.ok /\ Extracted.values = ExpectedValues
       /\ Located.ok /\ Located.values = ExpectedPositions

\* C18: a source row range [s, e] restricts Extract to the rows s..e of
\* the match and value columns, a target row range [s, e] keeps every
\* position of Locate inside s-1..e-1 of the whole table, and a rule with
\* no row range set (a DataMapping built from its declared fields) runs
\* over every row without error.
C18_RowWindows ==
    SourceWindowHonoured /\ TargetWindowHonoured /\ NoWindowRuns

\* The part of C18 about rules whose row ranges are set, for the
\* operators that evaluate without falling back to the all-false mask:
\* the part the code meets.
C18_SetWindows ==
    (mapping.match_operator \in Operators
     /\ ~(mapping.match_operator \in {"GREATER_THAN", "GREATER_EQUAL",
                                      "LESS_THAN", "LESS_EQUAL"}
          /\ FloatFails(mapping.source_match_value)))
    => (SourceWindowHonoured /\ TargetWindowHonoured)

----------------------------------------------------------------------------
(* Two rules on one target table (SpecOrder) *)

\* Target tables of three columns: the alternating key column and two
\* data columns.
OrderTargetTables ==
    {Table(3, [i \in 1..TgtRows |->
                  <<IF i % 2 = 1 THEN Sa ELSE Sb, b[i], c[i]>>]) :
        b \in [1..TgtRows -> TargetCells], c \in [1..TgtRows -> TargetCells]}

OrderRules ==
    {BaseRule,
     [BaseRule EXCEPT !.source_match_value = Sb],
     [BaseRule EXCEPT !.source_match_value = Sb, !.overwrite_existing = FALSE],
     [BaseRule EXCEPT !.source_match_value = Sb, !.target_match_coordinate = ColB,
                      !.target_match_value = Num(2)],
     [BaseRule EXCEPT !.target_insert_coordinate = ColC],
     [BaseRule EXCEPT !.source_match_value = Sb, !.target_match_coordinate = ColB,
                      !.target_match_value = Num(2),
                      !.target_insert_coordinate = ColC],
     [BaseRule EXCEPT !.source_match_value = Sb,
                      !.target_insert_coordinate = ColEmpty],
     [BaseRule EXCEPT !.source_file = "X"]}

InitOrder ==
    /\ pc = "args"
    /\ source_data \in [{"S"} -> MultiSourceTables]
    /\ target_data \in [{"T"} -> OrderTargetTables]
    /\ mapping = NoMapping
    /\ Idle

\* result = engine.execute_multiple_mappings([r1, r2], source_data, target_data)
ExecuteMultipleMappings ==
    /\ pc = "args"
    /\ \E r1 \in OrderRules, r2 \in OrderRules :
          /\ mappings' = <<r1, r2>>
          /\ result' = execute_multiple_mappings(<<r1, r2>>, source_data,
                                                 target_data)
    /\ pc' = "ran"
    /\ UNCHANGED <<eval_column, eval_value, eval_operator, eval_mask>>
    /\ UNCHANGED processor_vars
    /\ UNCHANGED <<source_data, target_data, mapping, errors,
                   current_target_data, ins_values, ins_positions, coord_str,
                   coord, col_index, col_letters>>

NextOrder == ExecuteMultipleMappings

SpecOrder == InitOrder /\ [][NextOrder]_vars

\* The column of the table a column coordinate stands for (an empty
\* column text gives index -1, the last column).
ResolvedColumn(c, df) ==
    IF column_to_index(c.column) < 0 THEN column_to_index(c.column) + df.ncols
    ELSE column_to_index(c.column)

First == mappings[1]
Second == mappings[2]
OrderDf == target_data["T"]
InsertCol(m) == ResolvedColumn(m.target_insert_coordinate, OrderDf)
MatchCol(m) == ResolvedColumn(m.target_match_coordinate, OrderDf)

Swapped == execute_multiple_mappings(<<Second, First>>, source_data, target_data)
Alone(m) == execute_multiple_mappings(<<m>>, source_data, target_data)

DifferentInsertColumns ==
    /\ pc = "ran"
    /\ First.target_file = Second.target_file
    /\ InsertCol(First) # InsertCol(Second)

\* C19 as stated: two rules on the same target table whose insert
\* columns differ give the same final table in either order.
C19_DifferentColumnsCommute ==
    DifferentInsertColumns => result.data = Swapped.data

\* C19 amended: two rules on the same target table whose insert columns
\* differ, and neither of which matches on the column the other inserts
\* into, give the same final table in either order.
C19_IndependentRulesCommute ==
    (/\ DifferentInsertColumns
     /\ MatchCol(First) # InsertCol(Second)
     /\ MatchCol(Second) # InsertCol(First))
    => result.data = Swapped.data

\* C19 witness: two such rules ran and each of them wrote into the table.
C19_Witness ==
    /\ DifferentInsertColumns
    /\ MatchCol(First) # InsertCol(Second)
    /\ MatchCol(Second) # InsertCol(First)
    /\ result.data # Alone(First).data
    /\ result.data # Alone(Second).data
    /\ result.data = Swapped.data

\* The tables the second rule runs on, and what each rule extracts and
\* locates when its turn comes.
AfterFirst == Alone(First).data
FirstValues == _extract_source_values(First, source_data)
SecondValues == _extract_source_values(Second, source_data)
FirstPositions == _find_target_positions(First, target_data)
SecondPositions == _find_target_positions(Second, AfterFirst)

IndexOf(positions, p) == CHOOSE i \in 1..Len(positions) : positions[i] = p

\* The value a rule offers to row p: the value in the same place of its
\* value list as p in its position list, the last value beyond the list.
ValueFor(values, positions, p) ==
    IF IndexOf(positions, p) <= Len(values) THEN values[IndexOf(positions, p)]
    ELSE values[Len(values)]

\* Both rules run without raising, locate row p and insert a value into
\* the same column.
SameCell(p) ==
    /\ pc = "ran"
    /\ InsertCol(First) = InsertCol(Second)
    /\ Len(FirstValues.values) > 0
    /\ Len(SecondValues.values) > 0
    /\ \E i \in 1..Len(FirstPositions.values) : FirstPositions.values[i] = p
    /\ \E i \in 1..Len(SecondPositions.values) : SecondPositions.values[i] = p
    /\ execute_mapping(First, source_data, target_data).ok
    /\ execute_mapping(Second, source_data, AfterFirst).ok

EarlierValue(p) == ValueFor(FirstValues.values, FirstPositions.values, p)
LaterValue(p) == ValueFor(SecondValues.values, SecondPositions.values, p)
FinalCell(p) == CellOf(result.data["T"], p, InsertCol(Second))

\* C20: when two rules of one call locate the same target row and insert
\* into the same column, the cell ends with the later rule's value if
\* the later rule overwrites, and keeps the value the earlier rule wrote
\* if the later rule does not overwrite.
C20_SameCellOrdering ==
    \A p \in 0..(Len(OrderDf.rows) - 1) :
        SameCell(p) =>
           /\ Second.overwrite_existing => FinalCell(p) = LaterValue(p)
           /\ (/\ ~Second.overwrite_existing
               /\ CellOf(AfterFirst["T"], p, InsertCol(First)) = EarlierValue(p))
              => FinalCell(p) = EarlierValue(p)

\* C20 witness: the later rule does not overwrite and offered the cell a
\* value other than the one the earlier rule had written there.
C20_Witness ==
    \E p \in 0..(Len(OrderDf.rows) - 1) :
        /\ SameCell(p)
        /\ ~Second.overwrite_existing
        /\ CellOf(AfterFirst["T"], p, InsertCol(First)) = EarlierValue(p)
        /\ CellOf(OrderDf, p, InsertCol(First)) # EarlierValue(p)
        /\ LaterValue(p) # EarlierValue(p)
        /\ FinalCell(p) = EarlierValue(p)

\* The later rule overwrote the value the earlier rule had written.
C20_OverwriteReached ==
    \E p \in 0..(Len(OrderDf.rows) - 1) :
        /\ SameCell(p)
        /\ Second.overwrite_existing
        /\ CellOf(AfterFirst["T"], p, InsertCol(First)) = EarlierValue(p)
        /\ LaterValue(p) # EarlierValue(p)
        /\ FinalCell(p) = LaterValue(p)

----------------------------------------------------------------------------
(* One rule on tables with an alternating key column (SpecRules) *)

InitRules ==
    /\ pc = "idle"
    /\ source_data \in [{"S"} -> MultiSourceTables]
    /\ \E t \in MultiTargetTables : target_data = [k \in {"T", "U"} |->
                                          IF k = "T" THEN t ELSE OtherTable]
    /\ mapping = NoMapping
    /\ Idle

SpecRules == InitRules /\ [][NextEngine]_vars

\* C28: when validate_mapping returns no error for a rule and table
\* sets, execute_mapping on the same rule and table sets does not raise.
C28_ValidationSound ==
    (pc = "executed" /\ errors = <<>>) => result.ok

\* The same for the rules that carry both row-range attributes and
\* whose operator evaluates without falling back: the part of C28 the
\* code meets.
C28_WithoutFallback ==
    (/\ mapping.source_match_row_range.has # "absent"
     /\ mapping.target_match_row_range.has # "absent"
     /\ mapping.match_operator # "GREATER_THAN")
    => C28_ValidationSound

\* The coordinate with a single cell of row n in place of a column or
\* single coordinate
AsSingle(c, n) ==
    IF c.coord_type \in {"column", "single"}
    THEN Coordinate(c.column, n, <<>>, 0, "single")
    ELSE c

WithSingles(m, n) ==
    [m EXCEPT !.source_match_coordinate = AsSingle(@, n),
              !.source_value_coordinate = AsSingle(@, n),
              !.target_match_coordinate = AsSingle(@, n),
              !.target_insert_coordinate = AsSingle(@, n)]

SingleRowNumbers == {1, 2, 7}

Unsupported(c) == c.coord_type \in {"range", "row"}

\* C30: a rule behaves the same with the single cell Ln as with the
\* column L, for every row number n; a coordinate of kind range or row
\* makes execute_mapping raise when it comes to resolve it, with the
\* target tables unchanged, and makes validate_mapping report an error.
C30_ColumnResolution ==
    /\ pc = "executed" =>
          \A n \in SingleRowNumbers :
             /\ execute_mapping(WithSingles(mapping, n), source_data, target_data)
                   = result
             /\ validate_mapping(WithSingles(mapping, n), source_data, target_data)
                   = errors
    /\ (pc = "executed"
        /\ (Unsupported(mapping.source_match_coordinate)
            \/ Unsupported(mapping.source_value_coordinate)))
       => ~result.ok
    /\ (pc = "executed" /\ Unsupported(mapping.target_match_coordinate)
        /\ Extracted.ok /\ Len(Extracted.values) > 0)
       => ~result.ok
    /\ (pc = "executed" /\ Unsupported(mapping.target_insert_coordinate)
        /\ Extracted.ok /\ Len(Extracted.values) > 0
        /\ Located.ok /\ Len(Located.values) > 0)
       => ~result.ok
    /\ (pc = "executed" /\ ~result.ok) => result.data = target_data
    /\ (pc \in {"validated", "executed"}
        /\ (\/ Unsupported(mapping.source_match_coordinate)
            \/ Unsupported(mapping.source_value_coordinate)
            \/ Unsupported(mapping.target_match_coordinate)
            \/ Unsupported(mapping.target_insert_coordinate)))
       => errors # <<>>

\* C30 witness: a rule whose insert coordinate is a range found values
\* and positions, raised, and left the tables as they were.
C30_Witness ==
    /\ pc = "executed"
    /\ mapping.target_insert_coordinate.coord_type = "range"
    /\ Extracted.ok /\ Len(Extracted.values) > 0
    /\ Located.ok /\ Len(Located.values) > 0
    /\ ~result.ok
    /\ result.data = target_data
    /\ errors # <<>>

\* A rule with a single-cell coordinate wrote into the table.
C30_SingleReached ==
    /\ pc = "executed"
    /\ mapping.target_insert_coordinate.coord_type = "single"
    /\ result.ok
    /\ result.data # target_data

\* C29 (SpecEval): each row is selected by exactly one of EQUALS and
\* NOT_EQUALS, for every column and comparison value.
C29_NotEqualsComplement ==
    Masked("EQUALS") =>
       \A i \in EvalRows :
          eval_mask.val[i] #
             _apply_match_operator(eval_column, eval_value, "NOT_EQUALS").val[i]

\* The same whenever EQUALS matches a row directly or the comparison
\* value admits no conversion: the part of C29 the code meets.
C29_DirectOnly ==
    (AnyDirectEq \/ (eval_value.t = "str" /\ ~AllDigits(eval_value.s)))
    => C29_NotEqualsComplement

----------------------------------------------------------------------------
(* The frame of execute_multiple_mappings (SpecMulti) *)

Prefix(k) == SubSeq(mappings, 1, k)

\* The running tables the k-th rule of the list was run on
TablesBefore(k) == MultiLoop(Prefix(k - 1), source_data, target_data, target_data)

\* The k-th rule ran without raising, on table key, located the 0-based
\* row r and inserts into the 0-based column c.
WroteAt(k, key, r, c) ==
    /\ mappings[k].target_file = key
    /\ execute_mapping(mappings[k], source_data, TablesBefore(k)).ok
    /\ ResolvedColumn(mappings[k].target_insert_coordinate, target_data[key]) = c
    /\ LET located == _find_target_positions(mappings[k], TablesBefore(k))
       IN  located.ok /\ \E i \in 1..Len(located.values) : located.values[i] = r

\* C26: whatever rules execute_multiple_mappings has run, every target
\* table keeps its numbers of rows and columns, a table no rule targets
\* is unchanged, and a cell differs from its initial value only if some
\* executed rule located its row and inserts into its column.
C26_Frame ==
    pc \in {"loop", "returned"} =>
       /\ DOMAIN current_target_data = DOMAIN target_data
       /\ \A key \in DOMAIN target_data :
             /\ current_target_data[key].ncols = target_data[key].ncols
             /\ Len(current_target_data[key].rows) = Len(target_data[key].rows)
             /\ (\A k \in 1..Len(mappings) : mappings[k].target_file # key)
                => current_target_data[key] = target_data[key]
             /\ \A r \in 1..Len(target_data[key].rows) :
                   /\ Len(current_target_data[key].rows[r]) = target_data[key].ncols
                   /\ \A c \in 1..target_data[key].ncols :
                         current_target_data[key].rows[r][c] # target_data[key].rows[r][c]
                         => \E k \in 1..Len(mappings) : WroteAt(k, key, r - 1, c - 1)
       /\ pc = "returned" => result.data = current_target_data

\* C26 witness: two rules ran and changed the table, and a row neither
\* of them located still holds its initial non-null cell.
C26_Witness ==
    /\ pc = "returned"
    /\ Len(mappings) = 2
    /\ result.data # target_data
    /\ target_data["T"].rows[2][2] = Num(9)
    /\ result.data["T"].rows[2] = target_data["T"].rows[2]
    /\ result.data["U"] = target_data["U"]

----------------------------------------------------------------------------
(* ExcelProcessor._make_unique_columns (src/src/core/excel_processor.py)   *)

\* Everything the engine, the conversions and the evaluator use is idle
NoEngine ==
    /\ source_data = <<>>
    /\ target_data = <<>>
    /\ mapping = NoMapping
    /\ result = NoResult
    /\ errors = <<>>
    /\ mappings = <<>>
    /\ current_target_data = <<>>
    /\ ins_values = <<>>
    /\ ins_positions = <<>>
    /\ coord_str = <<>>
    /\ coord = Fail
    /\ col_index = 0
    /\ col_letters = <<>>
    /\ EvalIdle

engine_vars == <<source_data, target_data, mapping, result, errors, mappings,
                 current_target_data, ins_values, ins_positions, coord_str,
                 coord, col_index, col_letters, eval_column, eval_value,
                 eval_operator, eval_mask>>

MaxNames == 3

Na == <<"a">>
Nb == <<"b">>
Na1 == <<"a", "_", "1">>
Na2 == <<"a", "_", "2">>

ColumnNames == {Na, Nb, Na1, Na2}

\* f"{col}_{n}"
Suffixed(col, n) == col \o <<"_">> \o IntToStr(n)

\* The loop of _make_unique_columns from position i on: seen maps each
\* name met so far to the number of its repeats, unique is the list built
\* so far.
RECURSIVE MakeUniqueLoop(_, _, _, _)
MakeUniqueLoop(cols, i, seen, unique) ==
    IF i > Len(cols) THEN unique
    ELSE LET col == cols[i]
         IN  IF col \in DOMAIN seen
             THEN MakeUniqueLoop(cols, i + 1,
                                 [seen EXCEPT ![col] = seen[col] + 1],
                                 Append(unique, Suffixed(col, seen[col] + 1)))
             ELSE MakeUniqueLoop(cols, i + 1,
                                 [k \in DOMAIN seen \cup {col} |->
                                     IF k = col THEN 0 ELSE seen[k]],
                                 Append(unique, col))

_make_unique_columns(cols) == MakeUniqueLoop(cols, 1, <<>>, <<>>)

InitColumns ==
    /\ NoEngine
    /\ SheetIdle
    /\ LabelsIdle
    /\ LoaderIdle
    /\ StoreIdle
    /\ pc = "names"
    /\ columns \in UNION {[1..k -> ColumnNames] : k \in 0..MaxNames}
    /\ unique_columns = <<>>

\* unique_columns = self._make_unique_columns(columns)
MakeUniqueColumns ==
    /\ pc = "names"
    /\ unique_columns' = _make_unique_columns(columns)
    /\ pc' = "unique"
    /\ UNCHANGED columns
    /\ UNCHANGED engine_vars
    /\ UNCHANGED <<read_outcomes, sheet_df, max_cols, column_names,
                   file_paths, data_frames, loaded_files, frames, dicts,
                   handles>>

NextColumns == MakeUniqueColumns

SpecColumns == InitColumns /\ [][NextColumns]_vars

\* The number of positions before i that carry the name of position i
RepeatsBefore(i) == Cardinality({j \in 1..(i - 1) : columns[j] = columns[i]})

\* The renaming rule alone: the first occurrence of a name is unchanged,
\* its j-th repeat becomes 'x_j', and the length is kept.
RenamingRule ==
    pc = "unique"
    => /\ Len(unique_columns) = Len(columns)
       /\ \A i \in 1..Len(columns) :
             unique_columns[i] =
                IF RepeatsBefore(i) = 0 THEN columns[i]
                ELSE Suffixed(columns[i], RepeatsBefore(i))

PairwiseDistinct(names) ==
    \A i, j \in 1..Len(names) : i # j => names[i] # names[j]

\* C25: for every list of column names, _make_unique_columns returns a
\* list of the same length whose names are pairwise distinct, in which
\* the first occurrence of each name is unchanged and the j-th repeat of
\* a name x is 'x_j'.
C25_UniqueNames ==
    pc = "unique"
    => /\ RenamingRule
       /\ PairwiseDistinct(unique_columns)

\* The names come out distinct whenever no input name has the form of a
\* generated one.
C25_DistinctWithoutSuffixedInput ==
    (pc = "unique" /\ \A i \in 1..Len(columns) : columns[i] \in {Na, Nb})
    => PairwiseDistinct(unique_columns)

----------------------------------------------------------------------------
(* EnhancedExcelProcessor._smart_read_sheet                                *)
(* (src/src/core/enhanced_excel_processor.py)                              *)

MaxSheetRows == 2

\* The rows a read can give: an all-empty row and a partly filled one
ReadRows == {<<Null, Null>>, <<Null, Num(1)>>}

ReadTables ==
    {Table(2, rows) : rows \in UNION {[1..k -> ReadRows] : k \in 0..MaxSheetRows}}

\* What pd.read_excel(file_path, sheet_name=..., skiprows=k) does: raise,
\* or give a table.
ReadFail == [ok |-> FALSE, df |-> Table(0, <<>>)]
ReadOk(df) == [ok |-> TRUE, df |-> df]

ReadOutcomes == {ReadFail} \cup {ReadOk(t) : t \in ReadTables}

\* df.empty
DfEmpty(df) == df.ncols = 0 \/ Len(df.rows) = 0

AllNa(row) == \A j \in 1..Len(row) : isna(row[j])

\* df.dropna(how='all').reset_index(drop=True)
DropEmptyRows(df) == Table(df.ncols, SelectSeq(df.rows, LAMBDA row : ~AllNa(row)))

SkipOffsetsAscending == <<0, 1, 2, 3>>

\* for skip_rows in [2, 1, 3, 0]
SkipOffsets == <<2, 1, 3, 0>>

NoSheet(tried) ==
    [found |-> FALSE, skip_rows |-> -1, df |-> Table(0, <<>>), tried |-> tried]

SheetRead(k, df, tried) ==
    [found |-> TRUE, skip_rows |-> k, df |-> df, tried |-> tried]

\* The loop of _smart_read_sheet from the i-th offset on; outcomes[k] is
\* what the read with skiprows=k does, tried lists the offsets read so far.
\* The column names are cleaned on the way; they are not part of a Table.
RECURSIVE SmartLoop(_, _, _)
SmartLoop(outcomes, i, tried) ==
    IF i > Len(SkipOffsets) THEN NoSheet(tried)
    ELSE LET skip_rows == SkipOffsets[i]
             read == outcomes[skip_rows]
             now == Append(tried, skip_rows)
         IN  IF ~read.ok THEN SmartLoop(outcomes, i + 1, now)
             ELSE IF DfEmpty(read.df) THEN SmartLoop(outcomes, i + 1, now)
             ELSE LET df == DropEmptyRows(read.df)
                  IN  IF /\ Len(df.rows) > 0
                         /\ \E j \in 1..Len(df.rows[1]) : ~isna(df.rows[1][j])
                      THEN SheetRead(skip_rows, df, now)
                      ELSE SmartLoop(outcomes, i + 1, now)

_smart_read_sheet(outcomes) == SmartLoop(outcomes, 1, <<>>)

InitSheet ==
    /\ NoEngine
    /\ ColumnsIdle
    /\ LabelsIdle
    /\ LoaderIdle
    /\ StoreIdle
    /\ pc = "sheet"
    /\ read_outcomes \in [0..3 -> ReadOutcomes]
    /\ sheet_df = <<>>

\* sheet_df = self._smart_read_sheet(file_path, sheet_name)
SmartReadSheet ==
    /\ pc = "sheet"
    /\ sheet_df' = _smart_read_sheet(read_outcomes)
    /\ pc' = "sheet_read"
    /\ UNCHANGED read_outcomes
    /\ UNCHANGED engine_vars
    /\ UNCHANGED <<columns, unique_columns, max_cols, column_names,
                   file_paths, data_frames, loaded_files, frames, dicts,
                   handles>>

NextSheet == SmartReadSheet

SpecSheet == InitSheet /\ [][NextSheet]_vars

\* The read with offset k is rejected: it failed, or gave no row with a
\* non-null cell.
Rejected(k) ==
    \/ ~read_outcomes[k].ok
    \/ \A i \in 1..Len(read_outcomes[k].df.rows) : AllNa(read_outcomes[k].df.rows[i])

\* The rows of the read with offset k that are not fully empty, in order
KeptRows(k) ==
    LET rows == read_outcomes[k].df.rows
        RECURSIVE Keep(_)
        Keep(i) == IF i > Len(rows) THEN <<>>
                   ELSE IF AllNa(rows[i]) THEN Keep(i + 1)
                   ELSE <<rows[i]>> \o Keep(i + 1)
    IN  Keep(1)

\* C24: _smart_read_sheet tries the offsets 2, 1, 3, 0 in that order; it
\* returns the table of the first offset in that order that is not
\* rejected, having tried exactly the offsets up to it; that table is
\* non-empty and its first row has a non-null cell; it returns nothing only
\* when all four offsets are rejected, after trying all four.
C24_OffsetChain ==
    pc = "sheet_read"
    => LET order == <<2, 1, 3, 0>>
           accepted == {i \in 1..4 : ~Rejected(order[i])}
       IN  IF accepted = {}
           THEN ~sheet_df.found /\ sheet_df.tried = order
           ELSE LET f == CHOOSE i \in accepted : \A j \in accepted : i <= j
                IN  /\ sheet_df.found
                    /\ sheet_df.skip_rows = order[f]
                    /\ sheet_df.tried = SubSeq(order, 1, f)
                    /\ sheet_df.df.rows = KeptRows(order[f])
                    /\ Len(sheet_df.df.rows) > 0
                    /\ ~AllNa(sheet_df.df.rows[1])

\* The read with offset 2 fails, the one with offset 1 gives only empty
\* rows, and the table of offset 3 is returned without its empty row.
C24_Witness ==
    /\ pc = "sheet_read"
    /\ ~read_outcomes[2].ok
    /\ read_outcomes[1] = ReadOk(Table(2, <<<<Null, Null>>>>))
    /\ read_outcomes[3] = ReadOk(Table(2, <<<<Null, Null>>, <<Null, Num(1)>>>>))
    /\ sheet_df = SheetRead(3, Table(2, <<<<Null, Num(1)>>>>), <<2, 1, 3>>)

\* All four offsets are rejected and nothing is returned
C24_NothingReached ==
    /\ pc = "sheet_read"
    /\ \A k \in 0..3 : Rejected(k)
    /\ ~sheet_df.found

----------------------------------------------------------------------------
(* The column labels of EnhancedExcelProcessor._load_standard_excel        *)

MaxCols == 704

\* string.ascii_uppercase[i] for i >= 0: IndexError from 26 on
AsciiUppercaseFails(i) == i >= Len(Letters)

AsciiUppercase(i) == Letters[i + 1]

\* The label of the 0-based position i of a sheet of more than 26 columns
LabelFails(i) == i >= 26 /\ AsciiUppercaseFails((i - 26) \div 26)

Label(i) ==
    IF i < 26 THEN <<AsciiUppercase(i)>>
    ELSE <<AsciiUppercase((i - 26) \div 26), AsciiUppercase(i % 26)>>

NoNames == [ok |-> FALSE, names |-> <<>>]
Names(names) == [ok |-> TRUE, names |-> names]

\* The names given to the columns of a non-empty sheet of n columns; the
\* IndexError of a label is the exception of the whole load.
StandardColumnNames(n) ==
    IF n <= 26 THEN Names([i \in 1..n |-> <<AsciiUppercase(i - 1)>>])
    ELSE IF \E i \in 0..(n - 1) : LabelFails(i) THEN NoNames
    ELSE Names([i \in 1..n |-> Label(i - 1)])

InitLabels ==
    /\ NoEngine
    /\ ColumnsIdle
    /\ SheetIdle
    /\ LoaderIdle
    /\ StoreIdle
    /\ pc = "sheet_columns"
    /\ max_cols \in 1..MaxCols
    /\ column_names = <<>>

\* max_cols = len(df.columns), then df.columns = [...]
NameColumns ==
    /\ pc = "sheet_columns"
    /\ column_names' = StandardColumnNames(max_cols)
    /\ pc' = "named"
    /\ UNCHANGED max_cols
    /\ UNCHANGED engine_vars
    /\ UNCHANGED <<columns, unique_columns, read_outcomes, sheet_df,
                   file_paths, data_frames, loaded_files, frames, dicts,
                   handles>>

NextLabels == NameColumns

SpecLabels == InitLabels /\ [][NextLabels]_vars

LabelsFollowScheme ==
    /\ column_names.ok
    /\ Len(column_names.names) = max_cols
    /\ \A i \in 0..(max_cols - 1) :
          /\ column_names.names[i + 1] = index_to_column(i)
          /\ column_to_index(column_names.names[i + 1]) = i

\* C22: for a sheet of n >= 1 columns the load does not fail because of
\* the column count, and the label of every 0-based position i < n is
\* index_to_column(i), so that column_to_index of the label is i.
C22_LabelsFollowScheme == pc = "named" => LabelsFollowScheme

\* The labels follow the scheme for the sheets of up to 702 columns
C22_UpTo702 == (pc = "named" /\ max_cols <= 702) => LabelsFollowScheme

\* From 703 columns on no names are given: the load returns nothing
C22_WideSheetFails == (pc = "named" /\ max_cols > 702) => ~column_names.ok

----------------------------------------------------------------------------
(* EnhancedExcelProcessor.load_excel_files                                 *)
(* (src/src/core/enhanced_excel_processor.py, src/src/utils/helpers.py)    *)

MaxBatch == 2

\* 50 * 1024 * 1024
MAX_FILE_SIZE == 52428800

Xlsx == <<".", "x", "l", "s", "x">>
Xls == <<".", "x", "l", "s">>

SUPPORTED_EXCEL_FORMATS == {Xlsx, Xls}

LowerCh(ch) == IF IsUpperCh(ch) THEN LowerLetters[PosIn(ch, Letters)] ELSE ch

\* str.lower()
Lower(s) == [i \in 1..Len(s) |-> LowerCh(s[i])]

\* A path as the call sees it: the stem and suffix of its name, whether a
\* file is there and its size; whether openpyxl and pandas can read it;
\* whether it shows more than five sheets or a power keyword; what
\* pd.read_excel(header=None) gives for its first sheet; and, per sheet,
\* the name and what the reads with each skip offset do.
ExcelFile(stem, exists, suffix, size, readable, complex, sheet, sheets) ==
    [stem |-> stem, exists |-> exists, suffix |-> suffix, size |-> size,
     readable |-> readable, complex |-> complex, sheet |-> sheet,
     sheets |-> sheets]

NoError == "none"

\* validate_excel_file: the exception it raises, if any
validate_excel_file(f) ==
    IF ~f.exists THEN "FileNotFoundError"
    ELSE IF Lower(f.suffix) \notin SUPPORTED_EXCEL_FORMATS
    THEN "InvalidFileFormatError"
    ELSE IF f.size > MAX_FILE_SIZE THEN "FileSizeExceededError"
    ELSE NoError

\* A loaded table: the column names and the cells
Frame(names, df) == [columns |-> names, ncols |-> df.ncols, rows |-> df.rows]

Unnamed == <<"U", "n", "n", "a", "m", "e", "d">>

\* The name _clean_column_names gives by position (five fixed names, then
\* a numbered one): a name of its own for every position.
PositionName(i) == <<"position", i + 1>>

\* _clean_column_names on the texts of the names
_clean_column_names(names) ==
    [k \in 1..Len(names) |->
        LET col_str == Strip(names[k])
        IN  IF StartsWith(col_str, Unnamed) \/ col_str = <<"n", "a", "n">>
            THEN PositionName(k - 1)
            ELSE IF col_str = <<>> THEN PositionName(k - 1)
            ELSE col_str]

\* _clean_dataframe: drop the fully empty rows, renumber, clean the names
_clean_dataframe(frame) ==
    Frame(_clean_column_names(frame.columns), DropEmptyRows(frame))

\* except in _is_complex_power_report: return False
_is_complex_power_report(f) == f.readable /\ f.complex

NoFrame == [ok |-> FALSE, frame |-> Frame(<<>>, Table(0, <<>>))]
SomeFrame(frame) == [ok |-> TRUE, frame |-> frame]

\* _load_standard_excel: None on any exception.  An empty sheet keeps the
\* default names 0, 1, ...
_load_standard_excel(f) ==
    IF ~f.readable THEN NoFrame
    ELSE IF DfEmpty(f.sheet)
    THEN SomeFrame(_clean_dataframe(
            Frame([k \in 1..f.sheet.ncols |-> IntToStr(k - 1)], f.sheet)))
    ELSE LET column_labels == StandardColumnNames(f.sheet.ncols)
         IN  IF ~column_labels.ok THEN NoFrame
             ELSE SomeFrame(_clean_dataframe(Frame(column_labels.names, f.sheet)))

\* dict.update
Update(a, b) ==
    [k \in DOMAIN a \cup DOMAIN b |-> IF k \in DOMAIN b THEN b[k] ELSE a[k]]

\* results[key] = df
Put(a, key, df) ==
    [k \in DOMAIN a \cup {key} |-> IF k = key THEN df ELSE a[k]]

\* The sheets of _load_complex_power_report from the i-th on
RECURSIVE ComplexLoop(_, _, _)
ComplexLoop(f, i, results) ==
    IF i > Len(f.sheets) THEN results
    ELSE LET sheet == f.sheets[i]
             df == _smart_read_sheet(sheet.reads)
             combined_key == f.stem \o <<"_">> \o sheet.name
         IN  IF df.found /\ ~DfEmpty(df.df)
             THEN ComplexLoop(f, i + 1,
                     Put(results, combined_key,
                         Frame(_clean_column_names(sheet.reads[df.skip_rows].header),
                               df.df)))
             ELSE ComplexLoop(f, i + 1, results)

\* _load_complex_power_report: every exception is logged and swallowed
_load_complex_power_report(f) ==
    IF ~f.readable THEN <<>> ELSE ComplexLoop(f, 1, <<>>)

LoadRaised(cause) ==
    [ok |-> FALSE, err |-> "ExcelFileError", cause |-> cause, loaded |-> <<>>]
LoadReturned(loaded) ==
    [ok |-> TRUE, err |-> NoError, cause |-> NoError, loaded |-> loaded]

\* The loop of load_excel_files from the i-th path on
RECURSIVE LoadLoop(_, _, _)
LoadLoop(paths, i, loaded) ==
    IF i > Len(paths) THEN LoadReturned(loaded)
    ELSE LET f == paths[i]
             invalid == validate_excel_file(f)
         IN  IF invalid # NoError THEN LoadRaised(invalid)
             ELSE IF _is_complex_power_report(f)
             THEN LoadLoop(paths, i + 1, Update(loaded, _load_complex_power_report(f)))
             ELSE LET df == _load_standard_excel(f)
                  IN  IF df.ok /\ ~DfEmpty(df.frame)
                      THEN LoadLoop(paths, i + 1, Put(loaded, f.stem, df.frame))
                      ELSE LoadLoop(paths, i + 1, loaded)

load_excel_files(paths) == LoadLoop(paths, 1, <<>>)

(* Inputs of the loader *)

Sheet43 ==
    Table(3, [i \in 1..4 |-> <<Str(<<"a">>), Num(i), Num(i + 1)>>])

\* An empty row in the middle and an empty second column
SheetGaps ==
    Table(3, <<<<Num(1), Null, Null>>, <<Null, Null, Null>>,
               <<Num(2), Null, Sa>>>>)

\* One row of 703 filled columns
SheetWide == Table(703, <<[j \in 1..703 |-> Num(1)]>>)

StandardSheets == ReadTables \cup {Sheet43, SheetGaps, SheetWide}

Stem == <<"f">>
OtherStem == <<"g">>

GoodFile(stem, sheet) ==
    ExcelFile(stem, TRUE, Xlsx, 1024, TRUE, FALSE, sheet, <<>>)

\* The reads of a report sheet whose header is found with skiprows=2
ReportReads ==
    [k \in 0..3 |->
        IF k = 2
        THEN [ok |-> TRUE, df |-> Table(2, <<<<Null, Num(1)>>>>),
              header |-> <<Unnamed \o <<":", " ", "0">>, <<"k", "W", "h">>>>]
        ELSE [ok |-> FALSE, df |-> Table(0, <<>>), header |-> <<>>]]

FailingReads ==
    [k \in 0..3 |-> [ok |-> FALSE, df |-> Table(0, <<>>), header |-> <<>>]]

ReportSheets ==
    <<[name |-> <<"P">>, reads |-> ReportReads],
      [name |-> <<"Q">>, reads |-> FailingReads]>>

Missing == [GoodFile(Stem, Sheet43) EXCEPT !.exists = FALSE]
WrongSuffix == [GoodFile(Stem, Sheet43) EXCEPT !.suffix = <<".", "c", "s", "v">>]
UpperSuffix == [GoodFile(OtherStem, Sheet43) EXCEPT !.suffix = <<".", "X", "L", "S">>]
AtSizeLimit == [GoodFile(Stem, Sheet43) EXCEPT !.size = MAX_FILE_SIZE]
OverSizeLimit == [GoodFile(Stem, Sheet43) EXCEPT !.size = MAX_FILE_SIZE + 1]
Unreadable == [GoodFile(Stem, Sheet43) EXCEPT !.readable = FALSE]
Report == [GoodFile(Stem, Sheet43) EXCEPT !.complex = TRUE, !.sheets = ReportSheets]

FileChoices ==
    {GoodFile(Stem, sheet) : sheet \in StandardSheets}
    \cup {GoodFile(OtherStem, SheetGaps), Missing, WrongSuffix, UpperSuffix,
          AtSizeLimit, OverSizeLimit, Unreadable, Report}

OldFrame == Frame(<<<<"A">>>>, Table(1, <<<<Num(9)>>>>))

InitLoader ==
    /\ NoEngine
    /\ ColumnsIdle
    /\ SheetIdle
    /\ LabelsIdle
    /\ StoreIdle
    /\ pc = "batch"
    /\ file_paths \in UNION {[1..k -> FileChoices] : k \in 1..MaxBatch}
    /\ data_frames \in {<<>>, [k \in {Stem} |-> OldFrame]}
    /\ loaded_files = <<>>

\* loaded_files = processor.load_excel_files(file_paths); the metadata
\* extracted at the end is not part of the state.
LoadExcelFiles ==
    /\ pc = "batch"
    /\ LET out == load_excel_files(file_paths)
       IN  /\ loaded_files' = out
           /\ data_frames' = IF out.ok THEN Update(data_frames, out.loaded)
                             ELSE data_frames
    /\ pc' = "loaded"
    /\ UNCHANGED file_paths
    /\ UNCHANGED engine_vars
    /\ UNCHANGED <<columns, unique_columns, read_outcomes, sheet_df,
                   max_cols, column_names, frames, dicts, handles>>

NextLoader == LoadExcelFiles

SpecLoader == InitLoader /\ [][NextLoader]_vars

----------------------------------------------------------------------------
(* Claims about the loader (SpecLoader) *)

Invalid(f) ==
    \/ ~f.exists
    \/ Lower(f.suffix) \notin {Xlsx, Xls}
    \/ f.size > 52428800

CannotBeRead(f) == ~f.readable

\* C21: load_excel_files raises a file error when a file of the batch is
\* missing, has an extension other than .xlsx/.xls, exceeds the size limit
\* or cannot be read as a workbook; and whenever it raises, data_frames
\* holds exactly the tables it held before the call.
C21_LoaderFailure ==
    [][LoadExcelFiles
       => /\ (\E i \in 1..Len(file_paths) :
                  Invalid(file_paths[i]) \/ CannotBeRead(file_paths[i]))
             => ~loaded_files'.ok
          /\ ~loaded_files'.ok => data_frames' = data_frames]_vars

\* A missing file, a wrong extension and a size over the limit raise
C21_InvalidRaises ==
    pc = "loaded"
    => ((\E i \in 1..Len(file_paths) : Invalid(file_paths[i]))
        <=> ~loaded_files.ok)

\* Whenever the call raises, data_frames is what it was
C21_AllOrNothing ==
    [][(LoadExcelFiles /\ ~loaded_files'.ok) => data_frames' = data_frames]_vars

\* A file that cannot be read is skipped and the call returns
C21_SkippedReached ==
    /\ pc = "loaded"
    /\ file_paths = <<Unreadable>>
    /\ loaded_files = LoadReturned(<<>>)

\* The rows of a sheet that are not fully empty, in file order
SheetRowsKept(sheet) ==
    LET RECURSIVE Keep(_)
        Keep(i) == IF i > Len(sheet.rows) THEN <<>>
                   ELSE IF AllNa(sheet.rows[i]) THEN Keep(i + 1)
                   ELSE <<sheet.rows[i]>> \o Keep(i + 1)
    IN  Keep(1)

\* The i-th file of the batch is loaded in standard mode and its key is
\* not written again later in the batch
StandardAt(i) ==
    /\ loaded_files.ok
    /\ file_paths[i].readable
    /\ ~file_paths[i].complex
    /\ \A j \in (i + 1)..Len(file_paths) : file_paths[j].stem # file_paths[i].stem

\* The table loaded for the i-th file is its sheet without the fully
\* empty rows: same columns, the other rows in file order.
KeepsStructure(i) ==
    LET f == file_paths[i]
        kept == SheetRowsKept(f.sheet)
    IN  kept # <<>>
        => /\ f.stem \in DOMAIN loaded_files.loaded
           /\ loaded_files.loaded[f.stem].rows = kept
           /\ loaded_files.loaded[f.stem].ncols = f.sheet.ncols
           /\ Len(loaded_files.loaded[f.stem].columns) = f.sheet.ncols
           /\ data_frames[f.stem] = loaded_files.loaded[f.stem]

\* C23: standard loading keeps the sheet's rectangular structure: the
\* first file row is data row 0, every column is kept, exactly the fully
\* empty rows are removed and the remaining rows keep file order,
\* numbered from 0; a sheet of 4 non-empty rows by 3 columns loads as a
\* table of shape 4 x 3.
C23_KeepsStructure ==
    pc = "loaded"
    => \A i \in 1..Len(file_paths) :
          StandardAt(i)
          => /\ KeepsStructure(i)
             /\ file_paths[i].sheet = Sheet43
                => /\ Len(loaded_files.loaded[file_paths[i].stem].rows) = 4
                   /\ loaded_files.loaded[file_paths[i].stem].ncols = 3

\* The structure is kept for the sheets of up to 702 columns
C23_UpTo702 ==
    pc = "loaded"
    => \A i \in 1..Len(file_paths) :
          (StandardAt(i) /\ file_paths[i].sheet.ncols <= 702)
          => KeepsStructure(i)

\* The sheet with an empty row and an empty column is loaded without the
\* row and with the column
C23_GapsReached ==
    /\ pc = "loaded"
    /\ file_paths = <<GoodFile(Stem, SheetGaps)>>
    /\ loaded_files.loaded[Stem].rows = <<<<Num(1), Null, Null>>, <<Num(2), Null, Sa>>>>
    /\ loaded_files.loaded[Stem].columns = <<<<"A">>, <<"B">>, <<"C">>>>

----------------------------------------------------------------------------
(* The engine on objects: the dicts and DataFrames the caller passes and   *)
(* the engine returns (src/src/core/data_mapping_engine.py).  frames and   *)
(* dicts list the objects made so far; an object is named by its position, *)
(* a dict maps a file key to the position of a frame.                      *)

Store(fs, ds) == [frames |-> fs, dicts |-> ds]

\* The table set a dict stands for
Deref(st, d) == [k \in DOMAIN st.dicts[d] |-> st.frames[st.dicts[d][k]]]

Made(st, ref) == [st |-> st, ref |-> ref]

\* target_data.copy(): a new dict holding the same frames
CopyDict(st, d) ==
    Made(Store(st.frames, Append(st.dicts, st.dicts[d])), Len(st.dicts) + 1)

\* CopyFrame without the copy: the frame itself
AliasFrame(st, f) == Made(st, f)

\* df.copy(): a new frame with the same cells
CopyFrame(st, f) ==
    Made(Store(Append(st.frames, st.frames[f]), st.dicts), Len(st.frames) + 1)

StoreRaised(st, e) == [ok |-> FALSE, err |-> e, st |-> st, ref |-> 0]
StoreReturned(st, d) == [ok |-> TRUE, err |-> "", st |-> st, ref |-> d]

\* _insert_values on the dict d: copy the dict, copy the target frame,
\* write into the copy, put the copy into the new dict, return the new
\* dict.
StoreInsertValues(m, st, d, source_values, target_positions) ==
    LET updated_target_data == CopyDict(st, d)
        df == CopyFrame(updated_target_data.st,
                        updated_target_data.st.dicts[updated_target_data.ref][m.target_file])
        written == _insert_values(m, Deref(st, d), source_values, target_positions)
    IN  IF ~written.ok THEN StoreRaised(df.st, written.err)
        ELSE StoreReturned(
                Store([df.st.frames EXCEPT ![df.ref] = written.data[m.target_file]],
                      [df.st.dicts EXCEPT ![updated_target_data.ref] =
                          [@ EXCEPT ![m.target_file] = df.ref]]),
                updated_target_data.ref)

\* execute_mapping on the dicts sd and td: the early returns give back td
\* itself.
StoreExecuteMapping(m, st, sd, td) ==
    LET source_values == _extract_source_values(m, Deref(st, sd))
        target_positions == _find_target_positions(m, Deref(st, td))
    IN  IF ~source_values.ok THEN StoreRaised(st, source_values.err)
        ELSE IF Len(source_values.values) = 0 THEN StoreReturned(st, td)
        ELSE IF ~target_positions.ok THEN StoreRaised(st, target_positions.err)
        ELSE IF Len(target_positions.values) = 0 THEN StoreReturned(st, td)
        ELSE StoreInsertValues(m, st, td, source_values.values,
                               target_positions.values)

\* The loop of execute_multiple_mappings: a rule that raises is skipped
RECURSIVE StoreMultiLoop(_, _, _, _)
StoreMultiLoop(ms, st, sd, current) ==
    IF Len(ms) = 0 THEN StoreReturned(st, current)
    ELSE LET out == StoreExecuteMapping(Head(ms), st, sd, current)
         IN  StoreMultiLoop(Tail(ms), out.st, sd,
                            IF out.ok THEN out.ref ELSE current)

\* execute_multiple_mappings: current_target_data = target_data.copy(),
\* then the loop
StoreExecuteMultipleMappings(ms, st, sd, td) ==
    LET running == CopyDict(st, td)
    IN  StoreMultiLoop(ms, running.st, sd, running.ref)

NoCall == [source |-> 1, target |-> 2, call |-> "", ok |-> TRUE, result |-> 0]

\* The caller holds the source dict (object 1) and the target dict
\* (object 2) over three frames.
InitStore ==
    /\ pc = "held"
    /\ source_data \in [{"S"} -> MultiSourceTables]
    /\ \E t \in MultiTargetTables : target_data = [k \in {"T", "U"} |->
                                          IF k = "T" THEN t ELSE OtherTable]
    /\ mapping = NoMapping
    /\ EvalIdle
    /\ ColumnsIdle
    /\ SheetIdle
    /\ LabelsIdle
    /\ LoaderIdle
    /\ result = NoResult
    /\ errors = <<>>
    /\ mappings = <<>>
    /\ current_target_data = <<>>
    /\ ins_values = <<>>
    /\ ins_positions = <<>>
    /\ coord_str = <<>>
    /\ coord = Fail
    /\ col_index = 0
    /\ col_letters = <<>>
    /\ frames = <<source_data["S"], target_data["T"], target_data["U"]>>
    /\ dicts = <<[k \in {"S"} |-> 1],
                 [k \in {"T", "U"} |-> IF k = "T" THEN 2 ELSE 3]>>
    /\ handles = NoCall

\* The caller takes what the call gives: the objects made, and the dict
\* returned or the exception
Called(name, ms, out) ==
    /\ mappings' = ms
    /\ frames' = out.st.frames
    /\ dicts' = out.st.dicts
    /\ handles' = [handles EXCEPT !.call = name, !.ok = out.ok,
                                  !.result = out.ref]
    /\ pc' = "back"
    /\ UNCHANGED <<eval_column, eval_value, eval_operator, eval_mask>>
    /\ UNCHANGED <<columns, unique_columns, read_outcomes, sheet_df,
                   max_cols, column_names, file_paths, data_frames,
                   loaded_files>>
    /\ UNCHANGED <<source_data, target_data, mapping, result, errors,
                   current_target_data, ins_values, ins_positions, coord_str,
                   coord, col_index, col_letters>>

\* engine.execute_mapping(m, source_data, target_data)
CallExecuteMapping ==
    /\ pc = "held"
    /\ \E m \in MultiRules :
          Called("execute_mapping", <<m>>,
                 StoreExecuteMapping(m, Store(frames, dicts),
                                     handles.source, handles.target))

\* engine.execute_multiple_mappings(ms, source_data, target_data)
CallExecuteMultipleMappings ==
    /\ pc = "held"
    /\ \E ms \in UNION {[1..k -> MultiRules] : k \in 0..MaxMappings} :
          Called("execute_multiple_mappings", ms,
                 StoreExecuteMultipleMappings(ms, Store(frames, dicts),
                                              handles.source, handles.target))

NextStore == CallExecuteMapping \/ CallExecuteMultipleMappings

SpecStore == InitStore /\ [][NextStore]_vars

\* What the caller's dicts stand for now
CallerTarget == Deref(Store(frames, dicts), handles.target)
CallerSource == Deref(Store(frames, dicts), handles.source)
ReturnedTables == Deref(Store(frames, dicts), handles.result)

\* The tables the call computes from the tables the caller passed
ComputedTables ==
    IF handles.call = "execute_mapping"
    THEN execute_mapping(mappings[1], source_data, target_data)
    ELSE execute_multiple_mappings(mappings, source_data, target_data)

\* C27: after execute_mapping or execute_multiple_mappings returns or
\* raises, the caller's target table set has the same keys and the same
\* cell values as before the call, and so has the source table set; the
\* written values are in the returned table set only.
C27_CallerTablesUntouched ==
    pc = "back"
    => /\ CallerTarget = target_data
       /\ CallerSource = source_data
       /\ handles.ok = ComputedTables.ok
       /\ handles.ok => ReturnedTables = ComputedTables.data

\* A call has written into the table 'T' it returns, and the caller's 'T'
\* is as it was
C27_Witness ==
    /\ pc = "back"
    /\ handles.ok
    /\ ReturnedTables["T"] # target_data["T"]
    /\ CallerTarget["T"] = target_data["T"]

\* A call has raised after making its copies
C27_RaisedReached ==
    /\ pc = "back"
    /\ ~handles.ok
    /\ Len(frames) > 3

====
